---- MODULE Spec2Model ----
(***************************************************************************)
(* Tombstone dead-code pipeline of dead-code-detection-demo:               *)
(*   tombstone/tracker.py            runtime tracker and registration      *)
(*   scripts/check_dead_code.py      reconciliation                        *)
(*   scripts/analyze_and_tombstone.py  instrumentation injector            *)
(* The external store (two tables) is a pair of variables; each table      *)
(* operation the code issues is one atomic step of the store.              *)
(***************************************************************************)
EXTENDS Integers, Sequences, FiniteSets, Bags, TLC

VARIABLES
    now,         \* datetime.utcnow(), in whole days
    tombstones,  \* table "tombstones": a set of rows
    events,      \* table "tombstone_events": a bag of rows
    report,      \* what the check_dead_code run of the last step returned
    reRegistered,\* history: an upsert has replaced an active row of its own id
    pc,          \* per thread: position inside TombstoneTracker.tombstone.wrapper
    frame,       \* per thread: the locals of the running wrapper call
    invoked,     \* history: wrapper calls started, by kind of tracker
    failed,      \* history: store inserts that raised
    file,        \* the lines of the source file the injector edits
    run,         \* the running analyze_and_tombstone.py main, or idle
    instrumented,\* history: elements add_tombstone_decorator has edited in
    history,     \* history: per completed non-dry run, its arguments and the file it left
    decl,        \* one declaration of the analysed source, as the parser sees it
    elem,        \* the CodeElement the analyzer holds for the declaration
    refs,        \* self.references.get(elem.name, set()): files naming the element
    prev,        \* history: the element and reference set of the analysis before the last
    analyses,    \* history: analyses run on the declaration
    files,       \* the source files under --path of remove_dead_code.py: path -> lines
    rm,          \* the running remove_dead_code.py main, or idle
    printed,     \* what the running or last removal run has printed
    fb,          \* the file and the names handed to the two removal strategies, and what each gave
    _default_tracker, \* tracker.py's module global: no instance, or the instance stored
    getters,     \* per thread: where its get_tracker() call stands and what its calls returned
    constructed, \* history: TombstoneTracker instances get_tracker has constructed
    hist,        \* history: the removal runs ended, the files before the first, the last run
    srcTree,     \* the source tree under the analyzer's root: its files in rglob order
    analyzer,    \* a CodeAnalyzer: self.elements, self.references
    lastRun,     \* history: what the analyze() before the last left and returned
    selected     \* what the last get_dead_code_candidates call was given and returned

storeVars == <<now, tombstones, events, report, reRegistered>>
trackerVars == <<pc, frame, invoked, failed>>
injectVars == <<file, run, instrumented, history>>
scoreVars == <<decl, elem, refs, prev, analyses>>
removeVars == <<files, rm, printed, hist>>
inventoryVars == <<srcTree, analyzer, lastRun, selected>>
singletonVars == <<_default_tracker, getters, constructed>>
extraVars == <<inventoryVars, fb, singletonVars>>
otherVars == <<scoreVars, removeVars, extraVars>>
vars == <<storeVars, trackerVars, injectVars, otherVars>>

---------------------------------------------------------------------------
(* Bounds *)

MaxDay == 2          \* the clock runs 0..MaxDay
MaxDays == 1         \* check_dead_code --days ranges over 0..MaxDays
MaxEvents == 2       \* rows of tombstone_events in the store specification
MaxInvocations == 3  \* wrapper calls started in one behaviour
MaxRuns == 2         \* non-dry injector runs in one behaviour
MaxAnalyses == 2     \* analyses of one declaration in one behaviour
MaxRemoveRuns == 2   \* removal runs in one behaviour
MaxInventoryRuns == 2 \* analyze() runs over one source tree in one behaviour
MaxGetCalls == 2      \* get_tracker() calls of one thread in one behaviour

Threads == {"t1", "t2"}
Projects == {"p1", "p2"}
DaysArgs == 0..MaxDays

---------------------------------------------------------------------------
(* tracker.py *)

DefaultReason == "Potentially unused code"

\* TombstoneTracker.__init__: the client exists only when not dry_run and
\* both url and key are present.
TombstoneTracker(project_name, dry_run, configured) ==
    [project_name |-> project_name,
     dry_run |-> dry_run,
     _client |-> (~dry_run) /\ configured]

\* The trackers of the host processes: store-backed, dry-run, and one whose
\* environment lacks SUPABASE_URL / SUPABASE_KEY.
Trackers ==
    { TombstoneTracker("p1", FALSE, TRUE),
      TombstoneTracker("p1", TRUE, TRUE),
      TombstoneTracker("p2", FALSE, FALSE) }

\* content = f"{project}:{file_path}:{function_name}:{line_number}", then the
\* first 16 hex digits of its sha256.  The digest is taken as collision-free:
\* the id is the content it was computed from, field by field.
_generate_tombstone_id(project_name, function_name, file_path, line_number) ==
    <<project_name, file_path, function_name, line_number>>

\* The unwrapped callables (sample_app/utils.py) and what a call yields:
\* legacy_hash_password(password) raises AttributeError on a value without
\* .encode(); calculate_checksum(data) raises TypeError on a non-bytes value.
Args == {"secret", "None"}

legacy_hash_password(password) ==
    IF password = "None"
    THEN [kind |-> "raise", value |-> "AttributeError"]
    ELSE [kind |-> "return", value |-> <<"md5", password>>]

calculate_checksum(data) ==
    IF data = "None"
    THEN [kind |-> "raise", value |-> "TypeError"]
    ELSE [kind |-> "return", value |-> <<"md5", data>>]

\* func(*args, **kwargs) for the code object func.
Call(func, a) ==
    IF func.__name__ = "legacy_hash_password"
    THEN legacy_hash_password(a)
    ELSE calculate_checksum(a)

\* The code objects the decorator is applied to: func.__name__,
\* func.__code__.co_filename, func.__code__.co_firstlineno.
Funcs ==
    { [__name__ |-> "legacy_hash_password", co_filename |-> "/app/utils.py", co_firstlineno |-> 38],
      [__name__ |-> "calculate_checksum", co_filename |-> "/app/utils.py", co_firstlineno |-> 46] }

\* A decorated callable: tracker.tombstone(name, reason)(func).
Wrapped ==
    { [tracker |-> tr, name |-> "None", reason |-> DefaultReason, func |-> f] :
        tr \in Trackers, f \in Funcs }

\* wrapper, tracker.py:132-148: the TombstoneEvent built for one call.
TombstoneEvent(w, t_now) ==
    LET function_name == IF w.name # "None" THEN w.name ELSE w.func.__name__
        file_path == w.func.co_filename
        line_number == w.func.co_firstlineno
    IN  [tombstone_id |-> _generate_tombstone_id(w.tracker.project_name,
                                                 function_name, file_path, line_number),
         function_name |-> function_name,
         file_path |-> file_path,
         line_number |-> line_number,
         triggered_at |-> t_now,
         context |-> w.reason]

\* _record_event, tracker.py:93-102: the row sent to tombstone_events.
EventRow(tracker, event) ==
    [tombstone_id |-> event.tombstone_id,
     project_name |-> tracker.project_name,
     function_name |-> event.function_name,
     file_path |-> event.file_path,
     line_number |-> event.line_number,
     triggered_at |-> event.triggered_at,
     context |-> event.context]

\* table("tombstone_events").insert(data): one more row, nothing else touched.
InsertEventUpsert(table, data) ==
    LET others == {r \in BagToSet(table) : r.tombstone_id # data.tombstone_id}
    IN  [r \in others |-> table[r]] (+) SetToBag({data})

InsertEvent(table, data) ==
    table (+) SetToBag({data})

\* _record_event, tracker.py:83-108, as a function of what the store call did.
\* storeOutcome is "none" when no store call is made, else "ok" or "raise".
\* Result: the bool returned and whether an exception leaves _record_event.
_record_event_unguarded(tracker, storeOutcome) ==
    IF tracker.dry_run THEN [ret |-> TRUE, raised |-> FALSE]
    ELSE IF ~tracker._client THEN [ret |-> FALSE, raised |-> FALSE]
    ELSE IF storeOutcome = "ok" THEN [ret |-> TRUE, raised |-> FALSE]
    ELSE [ret |-> FALSE, raised |-> TRUE]

_record_event(tracker, storeOutcome) ==
    IF tracker.dry_run THEN [ret |-> TRUE, raised |-> FALSE]
    ELSE IF ~tracker._client THEN [ret |-> FALSE, raised |-> FALSE]
    ELSE IF storeOutcome = "ok" THEN [ret |-> TRUE, raised |-> FALSE]
    ELSE [ret |-> FALSE, raised |-> FALSE]      \* except Exception: return False

NoFrame == [w |-> "none"]

\* register_tombstone, tracker.py:185-194: the row sent to tombstones.
TombstoneRow(tracker, tombstone_id, function_name, file_path, line_number, reason, t_now) ==
    [tombstone_id |-> tombstone_id,
     project_name |-> tracker.project_name,
     function_name |-> function_name,
     file_path |-> file_path,
     line_number |-> line_number,
     reason |-> reason,
     registered_at |-> t_now,
     status |-> "active"]

\* table("tombstones").upsert(data): the row with data's key is replaced,
\* a new key is inserted.  The key of the table is tombstone_id.
UpsertAsInsert(table, data) ==
    table \cup {data}

Upsert(table, data) ==
    {r \in table : r.tombstone_id # data.tombstone_id} \cup {data}

\* What callers pass to register_tombstone: (function_name, file_path, line_number).
RegLocs ==
    { [function_name |-> "legacy_hash_password", file_path |-> "/app/utils.py", line_number |-> 38],
      [function_name |-> "legacy_hash_password", file_path |-> "utils.py", line_number |-> 38] }

---------------------------------------------------------------------------
(* check_dead_code.py *)

\* table("tombstones").select("*").eq(project).eq(status, active).lt(registered_at, cutoff)
SelectTombstonesNoWindow(table, project_name, cutoff) ==
    {r \in table : r.project_name = project_name /\ r.status = "active"}

SelectTombstones(table, project_name, cutoff) ==
    {r \in table : /\ r.project_name = project_name
                   /\ r.status = "active"
                   /\ r.registered_at < cutoff}

\* table("tombstone_events").select("tombstone_id").in_("tombstone_id", ids)
SelectEventsRecent(table, tombstone_ids) ==
    {e \in BagToSet(table) : e.tombstone_id \in tombstone_ids /\ e.triggered_at >= now - 1}

SelectEvents(table, tombstone_ids) ==
    {e \in BagToSet(table) : e.tombstone_id \in tombstone_ids}

check_dead_code(project_name, days) ==
    LET cutoff_date == now - days
        toms == SelectTombstones(tombstones, project_name, cutoff_date)
        tombstone_ids == {t.tombstone_id : t \in toms}
        triggered_ids == {e.tombstone_id : e \in SelectEvents(events, tombstone_ids)}
    IN  IF toms = {} THEN {}
        ELSE {t \in toms : t.tombstone_id \notin triggered_ids}

NoReport == [project |-> "none", days |-> 0, dead |-> {}]

---------------------------------------------------------------------------
(* The store, registration and reconciliation *)

\* A row an operator has marked by hand: status resolved.
ResolvedRow ==
    [TombstoneRow(TombstoneTracker("p1", FALSE, TRUE),
                  _generate_tombstone_id("p1", "calculate_checksum", "/app/utils.py", 46),
                  "calculate_checksum", "/app/utils.py", 46, DefaultReason, 0)
     EXCEPT !.status = "resolved"]

\* A row whose function the remover has deleted: status removed.
RemovedRow ==
    [TombstoneRow(TombstoneTracker("p1", FALSE, TRUE),
                  _generate_tombstone_id("p1", "legacy_hash_password", "/app/utils.py", 38),
                  "legacy_hash_password", "/app/utils.py", 38, DefaultReason, 0)
     EXCEPT !.status = "removed"]

\* The lines of a source file.  k is what the line is: "import" (a line
\* starting with "import " or "from "), "tsimport" (from tombstone import
\* tombstone), "blank", "def" (the def line of top-level function n, whose
\* analysis score is conf tenths), "body", "marker" (a @tombstone(...) line;
\* n records the element it was written for).  ind is
\* len(line) - len(line.lstrip()), which is 1 for the line "\n".
ImportLine == [k |-> "import", n |-> "os", ind |-> 0, conf |-> 0]
TsImportLine == [k |-> "tsimport", n |-> "tombstone", ind |-> 0, conf |-> 0]
BlankLine == [k |-> "blank", n |-> "", ind |-> 1, conf |-> 0]
DocLine == [k |-> "doc", n |-> "", ind |-> 0, conf |-> 0]   \* a line of the module docstring
BodyLine == [k |-> "body", n |-> "", ind |-> 4, conf |-> 0]
DefLine(n, conf) == [k |-> "def", n |-> n, ind |-> 0, conf |-> conf]
MarkerLine(ind, n) == [k |-> "marker", n |-> n, ind |-> ind, conf |-> 0]

NoRun == [phase |-> "idle", project |-> "none", dry_run |-> FALSE, max_changes |-> 0,
          todo |-> <<>>, changes_made |-> 0]

InjectIdle ==
    /\ file = <<>>
    /\ run = NoRun
    /\ instrumented = {}
    /\ history = <<>>

\* No analysis has run: the analyzer holds no element.
NoElement == [name |-> <<>>]
NoPrev == [element |-> NoElement, refs |-> {}]

ScoreIdle ==
    /\ decl = [kind |-> "none"]
    /\ elem = NoElement
    /\ refs = {}
    /\ prev = NoPrev
    /\ analyses = 0

StoreIdle ==
    /\ now = 0
    /\ tombstones = {}
    /\ events = EmptyBag
    /\ report = NoReport
    /\ reRegistered = FALSE

\* No removal run: main of remove_dead_code.py has not started.
NoRemoval ==
    [phase |-> "idle", dry_run |-> FALSE, items |-> <<>>, by_file |-> <<>>,
     total_removed |-> 0, before |-> <<>>, writes |-> 0, faults |-> {}, removed |-> {}]

NoRunRecord == [items |-> <<>>, dry_run |-> FALSE, before |-> <<>>, after |-> <<>>,
                writes |-> 0, faults |-> {}, removed |-> {}, aborted |-> FALSE]
NoHistory(files0) == [runs |-> 0, files0 |-> files0, last |-> NoRunRecord]

RemoveIdle ==
    /\ files = <<>>
    /\ rm = NoRemoval
    /\ printed = <<>>
    /\ hist = NoHistory(<<>>)

\* CodeAnalyzer.__init__: no element, no reference; no analyze() has run
\* and get_dead_code_candidates has not been called.
NoAnalyzer == [elements |-> <<>>, references |-> {}]
NoOutcome == [elements |-> <<>>, references |-> {}, discovered |-> <<>>, unread |-> {},
              fresh |-> TRUE]
NoLastRun == [runs |-> 0, prev |-> NoOutcome, cur |-> NoOutcome]
NoCandidates == [called |-> FALSE, min_confidence |-> 0, elements |-> <<>>,
                 returned |-> <<>>]

InventoryIdle ==
    /\ srcTree = <<>>
    /\ analyzer = NoAnalyzer
    /\ lastRun = NoLastRun
    /\ selected = NoCandidates

\* Neither removal strategy has been given anything.
NotRun == [done |-> FALSE, raised |-> FALSE, lines |-> <<>>, removed |-> <<>>]
NoFallback == [source |-> <<>>, function_names |-> <<>>, by_line |-> NotRun,
               structural |-> NotRun]

\* _default_tracker = None at import; no thread is inside get_tracker.
NoInstance == 0
GetterIdle == [pc |-> "idle", via |-> "", made |-> NoInstance, calls |-> 0,
               returned |-> <<>>]
SingletonIdle ==
    /\ _default_tracker = NoInstance
    /\ getters = [t \in Threads |-> GetterIdle]
    /\ constructed = 0

ExtraIdle == InventoryIdle /\ fb = NoFallback /\ SingletonIdle

OtherIdle == ScoreIdle /\ RemoveIdle /\ ExtraIdle

TrackerInit ==
    /\ pc = [t \in Threads |-> "idle"]
    /\ frame = [t \in Threads |-> NoFrame]
    /\ invoked = [store |-> 0, other |-> 0]
    /\ failed = 0

\* A row of another project sharing the store.
ForeignRow ==
    TombstoneRow(TombstoneTracker("p2", FALSE, TRUE),
                 _generate_tombstone_id("p2", "legacy_hash_password", "/app/utils.py", 38),
                 "legacy_hash_password", "/app/utils.py", 38, DefaultReason, 0)

Init ==
    /\ now = 0
    /\ tombstones \in {{}, {ResolvedRow}, {RemovedRow}, {ForeignRow}}
    /\ events = EmptyBag
    /\ report = NoReport
    /\ reRegistered = FALSE
    /\ TrackerInit
    /\ InjectIdle
    /\ OtherIdle

Tick ==
    /\ now < MaxDay
    /\ now' = now + 1
    /\ report' = NoReport
    /\ UNCHANGED <<tombstones, events, reRegistered, trackerVars, injectVars, otherVars>>

\* register_tombstone, tracker.py:162-200.  storeOutcome is what the upsert
\* call does when it is made: "ok" or "raise".  A dry run and a tracker
\* without client return before any store call.
RegisterTombstone(tracker, loc, storeOutcome) ==
    LET tombstone_id == _generate_tombstone_id(tracker.project_name, loc.function_name,
                                               loc.file_path, loc.line_number)
        data == TombstoneRow(tracker, tombstone_id, loc.function_name, loc.file_path,
                             loc.line_number, DefaultReason, now)
        written == (~tracker.dry_run) /\ tracker._client /\ storeOutcome = "ok"
    IN  /\ tombstones' = IF written THEN Upsert(tombstones, data) ELSE tombstones
        /\ reRegistered' =
              ( \/ reRegistered
                \/ /\ written
                   /\ \E r \in tombstones : /\ r.tombstone_id = tombstone_id
                                            /\ r.status = "active" )
        /\ report' = NoReport
        /\ UNCHANGED <<now, events, trackerVars, injectVars, otherVars>>

\* One whole call of a wrapped callable, tracker.py:130-152, seen from the
\* store: the event row is inserted when the tracker has a client and the
\* insert does not raise.
WrappedCall(w, storeOutcome) ==
    LET event == TombstoneEvent(w, now)
        written == (~w.tracker.dry_run) /\ w.tracker._client /\ storeOutcome = "ok"
    IN  /\ BagCardinality(events) < MaxEvents
        /\ events' = IF written THEN InsertEvent(events, EventRow(w.tracker, event))
                                 ELSE events
        /\ report' = NoReport
        /\ UNCHANGED <<now, tombstones, reRegistered, trackerVars, injectVars, otherVars>>

\* check_dead_code.py main: one reconciliation run.
CheckDeadCode(project_name, days) ==
    /\ report' = [project |-> project_name, days |-> days,
                  dead |-> check_dead_code(project_name, days)]
    /\ UNCHANGED <<now, tombstones, events, reRegistered, trackerVars, injectVars, otherVars>>

StoreOutcomes == {"ok", "raise"}

Next ==
    \/ Tick
    \/ \E tracker \in Trackers, loc \in RegLocs, o \in StoreOutcomes :
            RegisterTombstone(tracker, loc, o)
    \/ \E w \in Wrapped, o \in StoreOutcomes : WrappedCall(w, o)
    \/ \E p \in Projects, d \in DaysArgs : CheckDeadCode(p, d)

Spec == Init /\ [][Next]_vars

---------------------------------------------------------------------------
(* The runtime tracker: concurrent calls of wrapped callables *)

TrackerSpecInit ==
    /\ now = 0
    /\ tombstones = {}
    /\ events = EmptyBag
    /\ report = NoReport
    /\ reRegistered = FALSE
    /\ TrackerInit
    /\ InjectIdle
    /\ OtherIdle

\* wrapper, tracker.py:130-148: a call arrives, the event is built.
Invoke(t, w, a) ==
    /\ pc[t] = "idle"
    /\ invoked.store + invoked.other < MaxInvocations
    /\ frame' = [frame EXCEPT ![t] =
                    [w |-> w, args |-> a, event |-> TombstoneEvent(w, now),
                     outcome |-> "none", recorded |-> "none", calls |-> 0,
                     passed |-> "none",
                     result |-> [kind |-> "none", value |-> "none"]]]
    /\ pc' = [pc EXCEPT ![t] = "record"]
    /\ invoked' = IF w.tracker._client
                  THEN [invoked EXCEPT !.store = @ + 1]
                  ELSE [invoked EXCEPT !.other = @ + 1]
    /\ UNCHANGED <<storeVars, failed, injectVars, otherVars>>

\* A Python bool as the frame holds it.
PyBool(b) == IF b THEN "True" ELSE "False"

\* What the wrapper does once _record_event has finished with outcome r:
\* an exception leaving _record_event leaves the wrapper too.
AfterRecord(t, storeOutcome, r) ==
    IF r.raised
    THEN /\ pc' = [pc EXCEPT ![t] = "done"]
         /\ frame' = [frame EXCEPT ![t].outcome = storeOutcome,
                                   ![t].recorded = PyBool(r.ret),
                                   ![t].result = [kind |-> "raise", value |-> "StoreError"]]
    ELSE /\ pc' = [pc EXCEPT ![t] = "call"]
         /\ frame' = [frame EXCEPT ![t].outcome = storeOutcome,
                                   ![t].recorded = PyBool(r.ret)]

\* _record_event on a dry-run or client-less tracker: a log line only.
RecordLocal(t) ==
    /\ pc[t] = "record"
    /\ ~frame[t].w.tracker._client
    /\ AfterRecord(t, "none", _record_event(frame[t].w.tracker, "none"))
    /\ UNCHANGED <<storeVars, invoked, failed, injectVars, otherVars>>

\* _record_event, tracker.py:104: the insert request leaves for the store.
SendInsert(t) ==
    /\ pc[t] = "record"
    /\ frame[t].w.tracker._client
    /\ pc' = [pc EXCEPT ![t] = "insert"]
    /\ UNCHANGED <<storeVars, frame, invoked, failed, injectVars, otherVars>>

\* The store performs the insert and answers.
StoreInsertOk(t) ==
    /\ pc[t] = "insert"
    /\ events' = InsertEvent(events, EventRow(frame[t].w.tracker, frame[t].event))
    /\ AfterRecord(t, "ok", _record_event(frame[t].w.tracker, "ok"))
    /\ UNCHANGED <<now, tombstones, report, reRegistered, invoked, failed, injectVars, otherVars>>

\* The store call raises (unreachable store, rejected row).
StoreInsertRaise(t) ==
    /\ pc[t] = "insert"
    /\ failed' = failed + 1
    /\ AfterRecord(t, "raise", _record_event(frame[t].w.tracker, "raise"))
    /\ UNCHANGED <<storeVars, invoked, injectVars, otherVars>>

\* wrapper, tracker.py:152: return func(*args, **kwargs)
CallOriginal(t) ==
    /\ pc[t] = "call"
    /\ frame' = [frame EXCEPT ![t].calls = @ + 1,
                              ![t].passed = frame[t].args,
                              ![t].result = Call(frame[t].w.func, frame[t].args)]
    /\ pc' = [pc EXCEPT ![t] = "done"]
    /\ UNCHANGED <<storeVars, invoked, failed, injectVars, otherVars>>

\* The wrapper call has returned or raised to its caller.
Return(t) ==
    /\ pc[t] = "done"
    /\ pc' = [pc EXCEPT ![t] = "idle"]
    /\ frame' = [frame EXCEPT ![t] = NoFrame]
    /\ UNCHANGED <<storeVars, invoked, failed, injectVars, otherVars>>

\* The steps the host process takes by itself.
WrapperStep(t) ==
    \/ \E w \in Wrapped, a \in Args : Invoke(t, w, a)
    \/ RecordLocal(t)
    \/ SendInsert(t)
    \/ CallOriginal(t)
    \/ Return(t)

\* The steps that are the store's answer to an insert.
StoreStep(t) ==
    \/ StoreInsertOk(t)
    \/ StoreInsertRaise(t)

TrackerNext ==
    \/ \E t \in Threads : WrapperStep(t)
    \/ \E t \in Threads : StoreStep(t)

TrackerSpec == TrackerSpecInit /\ [][TrackerNext]_vars

\* Threads of the host process are scheduled; the store owes no answer.
FairTrackerSpec == TrackerSpec /\ \A t \in Threads : WF_vars(WrapperStep(t))

---------------------------------------------------------------------------
(* The instrumentation injector, analyze_and_tombstone.py *)

DefaultMinConfidence == 5   \* --min-confidence 0.5, in tenths
DefaultMaxChanges == 10     \* --max-changes
ImportScanLines == 20       \* lines[:20], scanned for the tombstone import
ImportPlaceLines == 30      \* lines[:30], scanned for the last import

Min(a, b) == IF a < b THEN a ELSE b

SourceFile == "utils.py"    \* the file's path relative to --path

\* The source files the runs start from: an optional leading import (with or
\* without a blank line after it, or below a module docstring that fills
\* the lines the injector scans), then one or two top-level functions
\* whose scores lie on both sides of the threshold.
ConfValues == {4, 5, 8}
\* A module docstring of n lines.
ModuleDoc(n) == [i \in 1..n |-> DocLine]
Headers ==
    { <<>>, <<ImportLine>>, <<ImportLine, BlankLine>>, <<TsImportLine>>,
      ModuleDoc(ImportScanLines) \o <<TsImportLine>>,
      ModuleDoc(ImportScanLines) \o <<ImportLine>>,
      ModuleDoc(ImportPlaceLines) \o <<ImportLine>> }
InitialFiles ==
    { h \o <<DefLine("legacy_a", c1), BodyLine>> : h \in Headers, c1 \in ConfValues }
    \cup
    { h \o <<DefLine("legacy_a", c1), BodyLine, DefLine("old_b", c2), BodyLine>> :
        h \in Headers, c1 \in ConfValues, c2 \in ConfValues }

\* analyzer.py _analyze_file and _create_element_from_function: one element
\* per def line, in file order, located at node.lineno (the def line).
RECURSIVE ElementsFrom(_, _)
ElementsFrom(lines, i) ==
    IF i > Len(lines) THEN <<>>
    ELSE IF lines[i].k = "def"
         THEN <<[name |-> lines[i].n, element_type |-> "function",
                 file_path |-> SourceFile, line_number |-> i,
                 confidence |-> lines[i].conf]>> \o ElementsFrom(lines, i + 1)
         ELSE ElementsFrom(lines, i + 1)

\* list.sort(key=confidence, reverse=True): stable, highest first.
RECURSIVE InsertSorted(_, _)
InsertSorted(sorted, e) ==
    IF sorted = <<>> THEN <<e>>
    ELSE IF Head(sorted).confidence >= e.confidence
         THEN <<Head(sorted)>> \o InsertSorted(Tail(sorted), e)
         ELSE <<e>> \o sorted

RECURSIVE SortByConfidence(_)
SortByConfidence(elems) ==
    IF elems = <<>> THEN <<>>
    ELSE InsertSorted(SortByConfidence(SubSeq(elems, 1, Len(elems) - 1)),
                      elems[Len(elems)])

\* analyzer.py analyze, on the one file.
analyze(lines) == SortByConfidence(ElementsFrom(lines, 1))

\* analyzer.py get_dead_code_candidates, on a fresh analyzer.
get_dead_code_candidates(lines, min_confidence) ==
    SelectSeq(analyze(lines), LAMBDA e : e.confidence >= min_confidence)

\* list.insert(idx, x), idx counted from 0.
ListInsert(lines, idx, x) ==
    SubSeq(lines, 1, Min(idx, Len(lines))) \o <<x>>
        \o SubSeq(lines, Min(idx, Len(lines)) + 1, Len(lines))

HasMarkerText(line) == line.k = "marker"           \* "@tombstone" in line
IsTombstoneImport(line) == line.k = "tsimport"     \* "from tombstone import" in line
StartsWithImport(line) == line.k \in {"import", "tsimport"}

\* analyze_and_tombstone.py:70
has_import(lines) ==
    \E i \in 1..Min(Len(lines), ImportScanLines) : IsTombstoneImport(lines[i])

\* analyze_and_tombstone.py:74-77: one past the last import among lines[:30].
import_idx(lines) ==
    LET at == {i \in 1..Min(Len(lines), ImportPlaceLines) : StartsWithImport(lines[i])}
    IN  IF at = {} THEN 0 ELSE CHOOSE i \in at : \A j \in at : j <= i

\* analyze_and_tombstone.py:72-82
AddImport(lines) ==
    IF has_import(lines) THEN lines
    ELSE LET idx == import_idx(lines)
             with == ListInsert(lines, idx, TsImportLine)
         IN  IF idx = 0 THEN ListInsert(with, 1, BlankLine) ELSE with

\* add_tombstone_decorator, analyze_and_tombstone.py:26-93, on the lines
\* read from the file: what it returns and the lines it leaves in the file.
add_tombstone_decorator(lines, element, dry_run) ==
    LET line_idx == element.line_number - 1
    IN  IF line_idx >= Len(lines)
        THEN [ret |-> FALSE, lines |-> lines]
        ELSE IF line_idx > 0 /\ HasMarkerText(lines[line_idx])
        THEN [ret |-> FALSE, lines |-> lines]
        ELSE IF dry_run
        THEN [ret |-> TRUE, lines |-> lines]
        ELSE LET decorator_line == MarkerLine(lines[line_idx + 1].ind, element.name)
             IN  [ret |-> TRUE,
                  lines |-> AddImport(ListInsert(lines, line_idx, decorator_line))]

InjectInit ==
    /\ now = 0
    /\ tombstones = {}
    /\ events = EmptyBag
    /\ report = NoReport
    /\ reRegistered = FALSE
    /\ TrackerInit
    /\ file \in InitialFiles
    /\ run = NoRun
    /\ instrumented = {}
    /\ history = <<>>
    /\ OtherIdle

\* main, analyze_and_tombstone.py:143-165: the analysis and the candidates
\* kept for this run.
StartRun(project, dry_run, max_changes) ==
    LET candidates == get_dead_code_candidates(file, DefaultMinConfidence)
    IN  /\ run.phase = "idle"
        /\ Len(history) < MaxRuns
        /\ candidates # <<>>
        /\ run' = [phase |-> "running", project |-> project, dry_run |-> dry_run,
                   max_changes |-> max_changes,
                   todo |-> SubSeq(candidates, 1, Min(max_changes, Len(candidates))),
                   changes_made |-> 0]
        /\ UNCHANGED <<storeVars, trackerVars, otherVars, file, instrumented, history>>

\* main, analyze_and_tombstone.py:147-149: nothing to do, exit 0.
RunNoCandidates ==
    /\ run.phase = "idle"
    /\ Len(history) < MaxRuns
    /\ get_dead_code_candidates(file, DefaultMinConfidence) = <<>>
    /\ UNCHANGED vars

\* main, analyze_and_tombstone.py:169-174: one turn of the loop.
ProcessElement ==
    /\ run.phase = "running"
    /\ run.todo # <<>>
    /\ LET element == Head(run.todo)
           r == IF element.element_type \in {"function", "method"}
                THEN add_tombstone_decorator(file, element, run.dry_run)
                ELSE [ret |-> FALSE, lines |-> file]
       IN  /\ file' = r.lines
           /\ run' = [run EXCEPT !.todo = Tail(@),
                                 !.changes_made = IF r.ret THEN @ + 1 ELSE @]
           /\ instrumented' = IF r.ret /\ ~run.dry_run
                               THEN instrumented \cup {[element |-> element,
                                                      project |-> run.project]}
                               ELSE instrumented
    /\ UNCHANGED <<storeVars, trackerVars, otherVars, history>>

\* main, analyze_and_tombstone.py:176-185: the summary is printed and the
\* process ends.
FinishRun ==
    /\ run.phase = "running"
    /\ run.todo = <<>>
    /\ run' = NoRun
    /\ history' = IF run.dry_run THEN history
                  ELSE Append(history, [max_changes |-> run.max_changes, lines |-> file])
    /\ UNCHANGED <<storeVars, trackerVars, otherVars, file, instrumented>>

InjectProjects == {"default", "my-project"}
MaxChangesArgs == {1, DefaultMaxChanges}

InjectNext ==
    \/ \E p \in InjectProjects, d \in BOOLEAN, mc \in MaxChangesArgs : StartRun(p, d, mc)
    \/ RunNoCandidates
    \/ ProcessElement
    \/ FinishRun

InjectSpec == InjectInit /\ [][InjectNext]_vars

---------------------------------------------------------------------------
(* analyzer.py: the elements and their scoring *)

\* Text is a sequence of one-character strings; None is NoText.
NoText == [some |-> FALSE, text |-> <<>>]
Text(t) == [some |-> TRUE, text |-> t]

\* str.lower on the letters the model's texts use.
LowerChar(c) ==
    CASE c = "O" -> "o" [] c = "L" -> "l" [] c = "D" -> "d" [] c = "C" -> "c"
      [] OTHER -> c
lower(s) == [i \in 1..Len(s) |-> LowerChar(s[i])]

\* `k in s`, s.startswith(p), s.endswith(p)
Contains(k, s) ==
    \E i \in 1..(Len(s) - Len(k) + 1) : SubSeq(s, i, i + Len(k) - 1) = k
startswith(s, p) == Len(s) >= Len(p) /\ SubSeq(s, 1, Len(p)) = p
endswith(s, p) == Len(s) >= Len(p) /\ SubSeq(s, Len(s) - Len(p) + 1, Len(s)) = p

\* CodeAnalyzer.DEAD_CODE_KEYWORDS: the second, third and fourth of the
\* eleven, in the order of the list.
DEAD_CODE_KEYWORDS ==
    << <<"l", "e", "g", "a", "c", "y">>, <<"o", "l", "d">>,
       <<"u", "n", "u", "s", "e", "d">> >>

\* for keyword in self.DEAD_CODE_KEYWORDS: if keyword in s: ...; break
\* The keyword the loop stops at, <<>> when it runs to the end.
KeywordHits(s) ==
    {i \in 1..Len(DEAD_CODE_KEYWORDS) : Contains(DEAD_CODE_KEYWORDS[i], s)}
FirstKeyword(s) ==
    IF KeywordHits(s) = {} THEN <<>>
    ELSE DEAD_CODE_KEYWORDS[CHOOSE i \in KeywordHits(s) :
                                \A j \in KeywordHits(s) : i <= j]

\* One entry of element.reasons: the message and the keyword it quotes.
Reason(msg, keyword) == [msg |-> msg, keyword |-> keyword]

\* The increments of _calculate_confidence, in tenths.
NameKeywordScore == 3
DocKeywordScore == 4
NoRefsScore == 3
OwnFileScore == 2
PrivateScore == 2
MaxConfidence == 10

\* dataclass CodeElement with its defaults
CodeElement(name, element_type, file_path, line_number, docstring, is_private, is_dunder) ==
    [name |-> name, element_type |-> element_type, file_path |-> file_path,
     line_number |-> line_number, docstring |-> docstring,
     is_private |-> is_private, is_dunder |-> is_dunder,
     references_count |-> 0, confidence |-> 0, reasons |-> <<>>]

\* class_name is <<>> for None.
_create_element_from_function(node, file_path, class_name) ==
    CodeElement(IF class_name # <<>> THEN class_name \o <<".">> \o node.name ELSE node.name,
                IF class_name # <<>> THEN "method" ELSE "function",
                file_path, node.lineno, node.docstring,
                startswith(node.name, <<"_">>) /\ ~startswith(node.name, <<"_", "_">>),
                startswith(node.name, <<"_", "_">>) /\ endswith(node.name, <<"_", "_">>))

_create_element_from_class(node, file_path) ==
    CodeElement(node.name, "class", file_path, node.lineno, node.docstring,
                startswith(node.name, <<"_">>) /\ ~startswith(node.name, <<"_", "_">>),
                FALSE)

\* The reference part of the score without the branch of line 247.
ReferenceScore_no_own_file(element, r) ==
    ( IF Cardinality(r) = 0 THEN NoRefsScore ELSE 0 )
    + ( IF element.is_private /\ Cardinality(r) <= 1 THEN PrivateScore ELSE 0 )

\* The reference part of the score, lines 241-254.
ReferenceScore(element, r) ==
    ( IF Cardinality(r) = 0 THEN NoRefsScore
      ELSE IF Cardinality(r) = 1 /\ element.file_path \in r THEN OwnFileScore
      ELSE 0 )
    + ( IF element.is_private /\ Cardinality(r) <= 1 THEN PrivateScore ELSE 0 )

ReferenceReasons(element, r) ==
    ( IF Cardinality(r) = 0 THEN <<Reason("No references found in codebase", <<>>)>>
      ELSE IF Cardinality(r) = 1 /\ element.file_path \in r
           THEN <<Reason("Only referenced in its own file", <<>>)>>
      ELSE <<>> )
    \o ( IF element.is_private /\ Cardinality(r) <= 1
         THEN <<Reason("Private function with limited references", <<>>)>>
         ELSE <<>> )

NameHit(element) == FirstKeyword(lower(element.name)) # <<>>
DocHit(element) ==
    /\ element.docstring.some
    /\ element.docstring.text # <<>>
    /\ FirstKeyword(lower(element.docstring.text)) # <<>>

NameReasons(element) ==
    IF NameHit(element)
    THEN <<Reason("Name contains", FirstKeyword(lower(element.name)))>> ELSE <<>>
DocReasons(element) ==
    IF DocHit(element)
    THEN <<Reason("Docstring mentions", FirstKeyword(lower(element.docstring.text)))>>
    ELSE <<>>

\* The sum of the increments before the cap.
RawScore(element, r) ==
    (IF NameHit(element) THEN NameKeywordScore ELSE 0)
    + (IF DocHit(element) THEN DocKeywordScore ELSE 0)
    + ReferenceScore(element, r)

\* _calculate_confidence without the dunder exemption.
_calculate_confidence_no_dunder(element, r) ==
    [element EXCEPT
        !.references_count = Cardinality(r),
        !.confidence = Min(RawScore(element, r), MaxConfidence),
        !.reasons = ReferenceReasons(element, r)]

\* _calculate_confidence without the cap.
_calculate_confidence_uncapped(element, r) ==
    IF element.is_dunder
    THEN [element EXCEPT !.confidence = 0]
    ELSE [element EXCEPT !.references_count = Cardinality(r),
                         !.confidence = RawScore(element, r)]

\* _calculate_confidence that stops at a docstring hit, as it stops at a
\* dunder name.
_calculate_confidence_doc_stop(element, r) ==
    IF element.is_dunder
    THEN [element EXCEPT !.confidence = 0]
    ELSE IF DocHit(element)
    THEN [element EXCEPT
            !.confidence = (IF NameHit(element) THEN NameKeywordScore ELSE 0)
                           + DocKeywordScore]
    ELSE [element EXCEPT !.references_count = Cardinality(r),
                         !.confidence = Min(RawScore(element, r), MaxConfidence)]

\* _calculate_confidence that looks at the docstring only when the name
\* holds no keyword (elif in place of the second if).
_calculate_confidence_doc_elif(element, r) ==
    IF element.is_dunder
    THEN [element EXCEPT !.confidence = 0]
    ELSE [element EXCEPT
            !.references_count = Cardinality(r),
            !.confidence = Min((IF NameHit(element) THEN NameKeywordScore
                                ELSE IF DocHit(element) THEN DocKeywordScore ELSE 0)
                               + ReferenceScore(element, r), MaxConfidence),
            !.reasons = (IF NameHit(element) THEN NameReasons(element)
                         ELSE DocReasons(element))
                        \o ReferenceReasons(element, r)]

\* _calculate_confidence: the element with confidence, reasons and
\* references_count set; r is self.references.get(element.name, set()).
_calculate_confidence(element, r) ==
    IF element.is_dunder
    THEN [element EXCEPT !.confidence = 0,
                         !.reasons = <<Reason("Dunder method - likely framework hook",
                                              <<>>)>>]
    ELSE [element EXCEPT
            !.references_count = Cardinality(r),
            !.confidence = Min(RawScore(element, r), MaxConfidence),
            !.reasons = NameReasons(element) \o DocReasons(element)
                        \o ReferenceReasons(element, r)]

\* The declarations the analysed tree may hold: an ast.FunctionDef at top
\* level or in the body of a class, or an ast.ClassDef.
FuncNames ==
    { <<"r", "u", "n">>, <<"o", "l", "d">>, <<"_", "o", "l", "d">>,
      <<"_", "_", "o", "l", "d">>, <<"_", "_", "o", "l", "d", "_", "_">>,
      <<"_", "_", "r", "_", "_">>,
      <<"o", "l", "d", "_", "l", "e", "g", "a", "c", "y">> }
EnclosingClasses == { <<>>, <<"C">>, <<"O", "l", "d">> }
ClassNames == { <<"C">>, <<"O", "l", "d">>, <<"_", "_", "O", "l", "d", "_", "_">> }
Docstrings ==
    { NoText, Text(<<>>), Text(<<"o", "k">>), Text(<<"O", "L", "D">>),
      Text(<<"u", "n", "u", "s", "e", "d", " ", "O", "l", "d">>) }
OtherFile == "main.py"
SourceFiles == {SourceFile, OtherFile}

Declarations ==
    { [kind |-> "def", class_name |-> c,
       node |-> [name |-> n, docstring |-> d, lineno |-> 1]] :
         n \in FuncNames, c \in EnclosingClasses, d \in Docstrings }
    \cup
    { [kind |-> "class", class_name |-> <<>>,
       node |-> [name |-> n, docstring |-> d, lineno |-> 1]] :
         n \in ClassNames, d \in Docstrings }

\* _analyze_file, lines 132-146: the element made from one declaration.
ElementOf(d) ==
    IF d.kind = "def"
    THEN _create_element_from_function(d.node, SourceFile, d.class_name)
    ELSE _create_element_from_class(d.node, SourceFile)

\* The files whose text holds the element's base name are whatever the tree
\* holds when _find_references reads it.
ScoreInit ==
    /\ StoreIdle
    /\ TrackerInit
    /\ InjectIdle
    /\ RemoveIdle
    /\ ExtraIdle
    /\ decl \in Declarations
    /\ refs \in SUBSET SourceFiles
    /\ elem = NoElement
    /\ prev = NoPrev
    /\ analyses = 0

\* analyze(), lines 70-83: the elements are built and scored.
Analyze ==
    /\ analyses = 0
    /\ elem' = _calculate_confidence(ElementOf(decl), refs)
    /\ analyses' = 1
    /\ UNCHANGED <<storeVars, trackerVars, injectVars, removeVars, extraVars, decl, refs, prev>>

\* analyze() again, after the source was edited: the declaration has
\* docstring d and the files in r hold its name.
Reanalyze(d, r) ==
    /\ analyses > 0
    /\ analyses < MaxAnalyses
    /\ decl' = [decl EXCEPT !.node.docstring = d]
    /\ refs' = r
    /\ elem' = _calculate_confidence(ElementOf(decl'), r)
    /\ prev' = [element |-> elem, refs |-> refs]
    /\ analyses' = analyses + 1
    /\ UNCHANGED <<storeVars, trackerVars, injectVars, removeVars, extraVars>>

ScoreNext ==
    \/ Analyze
    \/ \E d \in Docstrings, r \in SUBSET SourceFiles : Reanalyze(d, r)

ScoreSpec == ScoreInit /\ [][ScoreNext]_vars

---------------------------------------------------------------------------
(* analyzer.py: the inventory of a source tree *)

\* A declaration as a file spells it: def or class, the name as written, the
\* docstring, the line of the def or class keyword, the declarations nested
\* in its body.
Decl(kind, spelled, docstring, lineno, body) ==
    [kind |-> kind, spelled |-> spelled, docstring |-> docstring,
     lineno |-> lineno, body |-> body]

\* One character of a source text that is not in normal form: the ligature
\* U+FB01. The parser normalises identifiers (NFKC), which turns it into the
\* two letters f and i.
LigFi == "U+FB01"
RECURSIVE NFKC(_)
NFKC(s) ==
    IF s = <<>> THEN <<>>
    ELSE (IF Head(s) = LigFi THEN <<"f", "i">> ELSE <<Head(s)>>) \o NFKC(Tail(s))

\* ast.parse: one node per declaration, its name normalised.
RECURSIVE AstNodes(_)
AstNodes(decls) ==
    [i \in 1..Len(decls) |->
        [type |-> IF decls[i].kind = "def" THEN "FunctionDef" ELSE "ClassDef",
         name |-> NFKC(decls[i].spelled),
         docstring |-> decls[i].docstring,
         lineno |-> decls[i].lineno,
         body |-> AstNodes(decls[i].body)]]

\* ast.walk: the nodes breadth first (a queue, children appended at its end).
RECURSIVE ast_walk(_)
ast_walk(todo) ==
    IF todo = <<>> THEN <<>>
    ELSE <<Head(todo)>> \o ast_walk(Tail(todo) \o Head(todo).body)

\* Lines 141-146: the methods of a class node.
MethodElements(node, rel_path) ==
    LET items == SelectSeq(node.body, LAMBDA item : item.type = "FunctionDef")
    IN  [i \in 1..Len(items) |->
            _create_element_from_function(items[i], rel_path, node.name)]

\* Lines 132-146: what the loop over ast.walk(tree) appends.
RECURSIVE WalkElements(_, _)
WalkElements(nodes, rel_path) ==
    IF nodes = <<>> THEN <<>>
    ELSE LET node == Head(nodes)
         IN  ( IF node.type = "FunctionDef"
               THEN <<_create_element_from_function(node, rel_path, <<>>)>>
               ELSE <<_create_element_from_class(node, rel_path)>>
                    \o MethodElements(node, rel_path) )
             \o WalkElements(Tail(nodes), rel_path)

\* _analyze_file: self.elements after the call. A file that does not parse
\* gives a warning and no element.
_analyze_file(elements, py_file) ==
    IF ~py_file.parses THEN elements
    ELSE elements \o WalkElements(ast_walk(AstNodes(py_file.decls)), py_file.path)

\* The text of a file as the words it is made of: for every declaration its
\* keyword, its name as spelled and its docstring, and the other words of
\* the file (calls, statements).
RECURSIVE DeclWords(_)
DeclWords(decls) ==
    IF decls = <<>> THEN {}
    ELSE LET d == Head(decls)
         IN  { IF d.kind = "def" THEN <<"d", "e", "f">>
               ELSE <<"c", "l", "a", "s", "s">>, d.spelled }
             \cup (IF d.docstring.some THEN {d.docstring.text} ELSE {})
             \cup DeclWords(d.body) \cup DeclWords(Tail(decls))
SourceWords(py_file) == DeclWords(py_file.decls) \cup py_file.words

\* element.name.split(".")[-1]
RECURSIVE BaseName(_)
BaseName(name) ==
    IF \E i \in 1..Len(name) : name[i] = "."
    THEN BaseName(Tail(name))
    ELSE name

\* _find_references that leaves out the file the element is declared in.
_find_references_not_own(references, elements, py_file, readable) ==
    IF ~readable THEN references
    ELSE references \cup
         { <<elements[i].name, py_file.path>> :
             i \in { j \in 1..Len(elements) :
                       /\ elements[j].file_path # py_file.path
                       /\ \E w \in SourceWords(py_file) :
                             Contains(BaseName(elements[j].name), w) } }

\* _find_references: self.references after the call, as the set of
\* <<element name, referencing file>>. A file that cannot be decoded gives a
\* warning and no reference.
_find_references(references, elements, py_file, readable) ==
    IF ~readable THEN references
    ELSE references \cup
         { <<elements[i].name, py_file.path>> :
             i \in { j \in 1..Len(elements) :
                       \E w \in SourceWords(py_file) :
                           Contains(BaseName(elements[j].name), w) } }

\* self.references.get(name, set())
ReferencesOf(references, name) == { x[2] : x \in {y \in references : y[1] = name} }

\* Lines 74-75 and 78-79: the two passes over _get_python_files().
RECURSIVE FirstPass(_, _)
FirstPass(elements, py_files) ==
    IF py_files = <<>> THEN elements
    ELSE FirstPass(_analyze_file(elements, Head(py_files)), Tail(py_files))

RECURSIVE SecondPass(_, _, _, _)
SecondPass(references, elements, py_files, unread) ==
    IF py_files = <<>> THEN references
    ELSE SecondPass(_find_references(references, elements, Head(py_files),
                                     Head(py_files).path \notin unread),
                    elements, Tail(py_files), unread)

\* What one analyze() leaves: self.elements as returned, self.references,
\* and for the record the elements in the order they were appended, the
\* files the second pass could not read and whether self held no element
\* when the call began.
Outcome(elements, references, discovered, unread, fresh) ==
    [elements |-> elements, references |-> references,
     discovered |-> discovered, unread |-> unread, fresh |-> fresh]

\* analyze() without lines 70-71: the elements of the call before stay.
analyze_no_reset(self, py_files, unread) ==
    LET elements == FirstPass(self.elements, py_files)
        references == SecondPass(self.references, elements, py_files, unread)
        scored == [i \in 1..Len(elements) |->
                      _calculate_confidence(elements[i],
                          ReferencesOf(references, elements[i].name))]
    IN  Outcome(SortByConfidence(scored), references, scored, unread,
                self.elements = <<>>)

\* CodeAnalyzer.analyze(): both passes, the scoring and the sort, from empty elements and
\* references whatever self held.
CodeAnalyzer_analyze(self, py_files, unread) ==
    LET elements == FirstPass(<<>>, py_files)
        references == SecondPass({}, elements, py_files, unread)
        scored == [i \in 1..Len(elements) |->
                      _calculate_confidence(elements[i],
                          ReferencesOf(references, elements[i].name))]
    IN  Outcome(SortByConfidence(scored), references, scored, unread,
                self.elements = <<>>)

\* Line 103: [e for e in self.elements if e.confidence >= min_confidence]
select(elements, min_confidence) ==
    SelectSeq(elements, LAMBDA e : e.confidence >= min_confidence)

\* A source file under the root: its path relative to the root, whether
\* ast.parse accepts it, its declarations and its other words.
PyFile(path, parses, decls, words) ==
    [path |-> path, parses |-> parses, decls |-> decls, words |-> words]

LegacyName == <<"l", "e", "g", "a", "c", "y">>
RunName == <<"r", "u", "n">>

\* Three top-level functions, one of them named legacy.
UtilsFile ==
    PyFile("utils.py", TRUE,
           << Decl("def", LegacyName, NoText, 1, <<>>),
              Decl("def", RunName, Text(<<"o", "k">>), 3, <<>>),
              Decl("def", <<"_", "a", "u", "x">>, NoText, 6, <<>>) >>,
           {})
\* A caller of run; and one that calls legacy as well.
MainFile ==
    PyFile("main.py", TRUE, << Decl("def", <<"m", "a", "i", "n">>, NoText, 1, <<>>) >>,
           {RunName})
MainLegacyFile ==
    PyFile("main.py", TRUE, << Decl("def", <<"m", "a", "i", "n">>, NoText, 1, <<>>) >>,
           {RunName, LegacyName})
\* A function nested in a function, a class with a method, a last function.
NestFile ==
    PyFile("nest.py", TRUE,
           << Decl("def", <<"p">>, NoText, 1,
                   << Decl("def", <<"q">>, NoText, 2, <<>>) >>),
              Decl("class", <<"K">>, NoText, 4,
                   << Decl("def", <<"m", "t">>, NoText, 5, <<>>) >>),
              Decl("def", <<"h">>, NoText, 7, <<>>) >>,
           {})
\* A function whose name is spelled with the ligature.
LigatureFile ==
    PyFile("lig.py", TRUE, << Decl("def", <<LigFi, "x">>, NoText, 1, <<>>) >>, {})
\* A file with a syntax error, which names run.
BadSyntaxFile == PyFile("bad.py", FALSE, <<>>, {RunName})

PyFiles == {UtilsFile, MainFile, MainLegacyFile, NestFile, LigatureFile, BadSyntaxFile}

\* _get_python_files(): the files of the tree in the order rglob gives them,
\* which is any order but the same one as long as the tree is unchanged.
SourceTrees ==
    { <<f>> : f \in PyFiles }
    \cup { t \in { <<f, g>> : f \in PyFiles, g \in PyFiles } : t[1].path # t[2].path }

TreePaths == { srcTree[i].path : i \in 1..Len(srcTree) }

InventoryInit ==
    /\ StoreIdle
    /\ TrackerInit
    /\ InjectIdle
    /\ ScoreIdle
    /\ RemoveIdle
    /\ fb = NoFallback
    /\ SingletonIdle
    /\ srcTree \in SourceTrees
    /\ analyzer = NoAnalyzer
    /\ lastRun = NoLastRun
    /\ selected = NoCandidates

\* analyzer.analyze(); the second pass fails to decode the files in unread
\* (they were rewritten after the first pass).
AnalyzeTree(unread) ==
    /\ lastRun.runs < MaxInventoryRuns
    /\ LET o == CodeAnalyzer_analyze(analyzer, srcTree, unread)
       IN  /\ analyzer' = [elements |-> o.elements, references |-> o.references]
           /\ lastRun' = [runs |-> lastRun.runs + 1, prev |-> lastRun.cur, cur |-> o]
    /\ UNCHANGED <<storeVars, trackerVars, injectVars, scoreVars, removeVars,
                   srcTree, selected, fb, singletonVars>>

\* analyzer.get_dead_code_candidates(min_confidence), lines 100-103: an
\* analyzer that holds no element analyses first.
GetCandidates(min_confidence, unread) ==
    /\ analyzer.elements = <<>> => lastRun.runs < MaxInventoryRuns
    /\ analyzer.elements # <<>> => unread = {}
    /\ IF analyzer.elements = <<>>
       THEN LET o == CodeAnalyzer_analyze(analyzer, srcTree, unread)
            IN  /\ analyzer' = [elements |-> o.elements, references |-> o.references]
                /\ lastRun' = [runs |-> lastRun.runs + 1, prev |-> lastRun.cur, cur |-> o]
       ELSE UNCHANGED <<analyzer, lastRun>>
    /\ selected' = [called |-> TRUE, min_confidence |-> min_confidence,
                    elements |-> analyzer'.elements,
                    returned |-> select(analyzer'.elements, min_confidence)]
    /\ UNCHANGED <<storeVars, trackerVars, injectVars, scoreVars, removeVars, srcTree, fb,
                   singletonVars>>

\* CodeAnalyzer(root): a fresh analyzer takes the place of the first.
NewAnalyzer ==
    /\ analyzer # NoAnalyzer
    /\ analyzer' = NoAnalyzer
    /\ UNCHANGED <<storeVars, trackerVars, injectVars, scoreVars, removeVars,
                   srcTree, lastRun, selected, fb, singletonVars>>

InventoryNext ==
    \/ \E unread \in SUBSET TreePaths : AnalyzeTree(unread)
    \/ \E min_confidence \in 0..MaxConfidence, unread \in SUBSET TreePaths :
          GetCandidates(min_confidence, unread)
    \/ NewAnalyzer

InventorySpec == InventoryInit /\ [][InventoryNext]_vars

---------------------------------------------------------------------------
(* remove_dead_code.py *)

\* Further kinds of source line: "comment" (a line holding only a comment),
\* "class" (the class line of class n), "bad" (a line the parser rejects).
\* A "body" line carries its text in n.  Here a file is what read() returns
\* split at "\n", so an empty line has indentation 0.
EmptyLine == [k |-> "blank", n |-> "", ind |-> 0, conf |-> 0]
CommentLine(ind) == [k |-> "comment", n |-> "# note", ind |-> ind, conf |-> 0]
StmtLine(text, ind) == [k |-> "body", n |-> text, ind |-> ind, conf |-> 0]
DefAt(n, ind) == [k |-> "def", n |-> n, ind |-> ind, conf |-> 0]
ClassLine(n) == [k |-> "class", n |-> n, ind |-> 0, conf |-> 0]
BadLine == [k |-> "bad", n |-> "def (", ind |-> 0, conf |-> 0]

IsTrivia(line) == line.k \in {"blank", "comment"}

\* The first line at or after i that is neither blank nor comment.
RECURSIVE SkipTrivia(_, _)
SkipTrivia(lines, i) ==
    IF i <= Len(lines) /\ IsTrivia(lines[i]) THEN SkipTrivia(lines, i + 1) ELSE i

\* A statement of the tree: its kind and name, its decorators, its body, the
\* line it starts on (node.lineno) and the line its last statement ends on
\* (node.end_lineno).
Node(k, n, decos, body, lineno, end_lineno) ==
    [k |-> k, n |-> n, decos |-> decos, body |-> body,
     lineno |-> lineno, end_lineno |-> end_lineno]
ParseError == [ok |-> FALSE, nodes |-> <<>>, next |-> 0]

\* ast.parse on the statements of one block: the lines from i on whose
\* indentation is ind, up to the first line indented less.  decos holds the
\* decorators read and not yet attached.  A def or class needs an indented
\* block after it; a decorator needs a def or class.
RECURSIVE ParseBlock(_, _, _, _)
ParseBlock(lines, i, ind, decos) ==
    LET j == SkipTrivia(lines, i)
    IN  IF j > Len(lines) \/ lines[j].ind < ind
        THEN IF decos = <<>> THEN [ok |-> TRUE, nodes |-> <<>>, next |-> j]
             ELSE ParseError
        ELSE IF lines[j].ind > ind \/ lines[j].k = "bad"
        THEN ParseError
        ELSE IF lines[j].k = "marker"
        THEN ParseBlock(lines, j + 1, ind, Append(decos, lines[j].n))
        ELSE IF lines[j].k \in {"def", "class"}
        THEN LET body == ParseBlock(lines, j + 1, ind + 4, <<>>)
             IN  IF ~body.ok \/ body.nodes = <<>>
                 THEN ParseError
                 ELSE LET rest == ParseBlock(lines, body.next, ind, <<>>)
                      IN  IF ~rest.ok THEN ParseError
                          ELSE [ok |-> TRUE,
                                nodes |-> <<Node(lines[j].k, lines[j].n, decos, body.nodes, j,
                                                 body.nodes[Len(body.nodes)].end_lineno)>>
                                          \o rest.nodes,
                                next |-> rest.next]
        ELSE IF decos # <<>>
        THEN ParseError
        ELSE LET rest == ParseBlock(lines, j + 1, ind, <<>>)
             IN  IF ~rest.ok THEN ParseError
                 ELSE [ok |-> TRUE,
                       nodes |-> <<Node(lines[j].k, lines[j].n, <<>>, <<>>, j, j)>> \o rest.nodes,
                       next |-> rest.next]

\* ast.parse(source): the module's body, or a SyntaxError.
Parse(lines) ==
    LET r == ParseBlock(lines, 1, 0, <<>>)
    IN  IF r.ok /\ r.next > Len(lines) THEN [ok |-> TRUE, nodes |-> r.nodes]
        ELSE [ok |-> FALSE, nodes |-> <<>>]

\* FunctionRemover.visit on a list of statements: a def whose name is to be
\* removed is dropped and recorded; any other def is returned as it is (its
\* body is not visited); the body of a class is visited (generic_visit).
RECURSIVE Visit(_, _)
Visit(nodes, functions_to_remove) ==
    IF nodes = <<>> THEN [nodes |-> <<>>, removed |-> <<>>]
    ELSE LET node == Head(nodes)
             rest == Visit(Tail(nodes), functions_to_remove)
         IN  IF node.k = "def"
             THEN IF node.n \in functions_to_remove
                  THEN [nodes |-> rest.nodes, removed |-> <<node.n>> \o rest.removed]
                  ELSE [nodes |-> <<node>> \o rest.nodes, removed |-> rest.removed]
             ELSE IF node.k = "class"
             THEN LET inner == Visit(node.body, functions_to_remove)
                  IN  [nodes |-> <<[node EXCEPT !.body = inner.nodes]>> \o rest.nodes,
                       removed |-> inner.removed \o rest.removed]
             ELSE [nodes |-> <<node>> \o rest.nodes, removed |-> rest.removed]

\* The text ast.unparse gives a statement: its own spelling, whatever the
\* source's was.
Canon(text) == IF text = "return \"s\"" THEN "return 's'" ELSE text

MarkerLines(decos, ind) == [i \in 1..Len(decos) |-> MarkerLine(ind, decos[i])]

\* ast.unparse on a list of statements, appended to the lines in out: no
\* comment and no blank line of the source survives; an empty line goes
\* before every def and class unless nothing was written yet; a body that
\* has become empty writes nothing.
RECURSIVE Unparse(_, _, _)
Unparse(nodes, ind, out) ==
    IF nodes = <<>> THEN out
    ELSE LET node == Head(nodes)
         IN  IF node.k \in {"def", "class"}
             THEN LET head == (IF out # <<>> THEN out \o <<EmptyLine>> ELSE out)
                              \o MarkerLines(node.decos, ind)
                              \o <<[k |-> node.k, n |-> node.n, ind |-> ind, conf |-> 0]>>
                  IN  Unparse(Tail(nodes), ind, Unparse(node.body, ind + 4, head))
             ELSE Unparse(Tail(nodes), ind,
                          Append(out, [k |-> node.k, n |-> Canon(node.n),
                                       ind |-> ind, conf |-> 0]))

\* What the file system does to one open-read or open-write of a file:
\* "ok"; "read" (open or read raises); "open_w" (open for writing raises,
\* nothing is written); "write" (the file is open and truncated, and the
\* write raises after cut lines).
IoOk == [kind |-> "ok", cut |-> 0]
IoOutcomes ==
    { IoOk, [kind |-> "read", cut |-> 0], [kind |-> "open_w", cut |-> 0],
      [kind |-> "write", cut |-> 1] }

\* open(file_path, "w") and f.write(new_source) under io: the lines left on
\* disk and whether an exception was raised.
WriteFile(old, new_source, io) ==
    IF io.kind = "open_w" THEN [lines |-> old, raised |-> TRUE]
    ELSE IF io.kind = "write"
    THEN [lines |-> SubSeq(new_source, 1, Min(io.cut, Len(new_source))), raised |-> TRUE]
    ELSE [lines |-> new_source, raised |-> FALSE]

Printed(msg, file_path, names) == [msg |-> msg, file |-> file_path, names |-> names]

SeqToSet(q) == {q[i] : i \in 1..Len(q)}

\* remove_functions_from_file, lines 41-87, on the file whose lines are
\* source: the list it returns, the lines it leaves on disk, what it prints
\* and whether it wrote.  Any exception ends in the handler of line 85.
remove_functions_from_file(file_path, function_names, dry_run, source, io) ==
    LET failed_ == [ret |-> <<>>, lines |-> source, wrote |-> FALSE,
                    out |-> <<Printed("Error processing", file_path, <<>>)>>]
        tree == Parse(source)
        remover == Visit(tree.nodes, SeqToSet(function_names))
        new_source == Unparse(remover.nodes, 0, <<>>)
        w == WriteFile(source, new_source, io)
    IN  IF io.kind = "read" \/ ~tree.ok THEN failed_
        ELSE IF remover.removed = <<>>
        THEN [ret |-> <<>>, lines |-> source, wrote |-> FALSE, out |-> <<>>]
        ELSE IF dry_run
        THEN [ret |-> remover.removed, lines |-> source, wrote |-> FALSE,
              out |-> <<Printed("Would remove from", file_path, remover.removed)>>]
        ELSE IF w.raised
        THEN [failed_ EXCEPT !.lines = w.lines, !.wrote = (io.kind = "write")]
        ELSE [ret |-> remover.removed, lines |-> w.lines, wrote |-> TRUE,
              out |-> <<Printed("Removed from", file_path, remover.removed)>>]

\* The lines that hold no tombstone import, in order (lines 138-141).
RECURSIVE DropTombstoneImports(_)
DropTombstoneImports(q) ==
    IF q = <<>> THEN <<>>
    ELSE (IF IsTombstoneImport(Head(q)) THEN <<>> ELSE <<Head(q)>>)
         \o DropTombstoneImports(Tail(q))

\* remove_tombstone_imports, lines 126-150: what it returns, the lines it
\* leaves on disk, whether it wrote and whether an exception was raised;
\* every exception ends in `return False`, and nothing is printed.
remove_tombstone_imports(file_path, content, io) ==
    LET new_lines == DropTombstoneImports(content)
        w == WriteFile(content, new_lines, io)
    IN  IF io.kind = "read"
        THEN [ret |-> FALSE, lines |-> content, wrote |-> FALSE, raised |-> TRUE]
        ELSE IF \E i \in 1..Len(content) : HasMarkerText(content[i])
        THEN [ret |-> FALSE, lines |-> content, wrote |-> FALSE, raised |-> FALSE]
        ELSE IF Len(new_lines) < Len(content)
        THEN [ret |-> ~w.raised, lines |-> w.lines,
              wrote |-> (io.kind \in {"ok", "write"}), raised |-> w.raised]
        ELSE [ret |-> FALSE, lines |-> content, wrote |-> FALSE, raised |-> FALSE]

\* The files a removal run may find on disk.  f is the function the
\* confirmed-dead list names; g and h are not on the list.
PlainFile ==
    <<DefAt("f", 0), BodyLine, EmptyLine,
      DefAt("g", 0), CommentLine(4), StmtLine("return \"s\"", 4)>>
OnlyMethodFile ==
    <<ClassLine("C"), DefAt("f", 4), StmtLine("pass", 8), DefAt("g", 0), BodyLine>>
MarkedFile ==
    <<TsImportLine, MarkerLine(0, "f"), DefAt("f", 0), BodyLine,
      MarkerLine(0, "g"), DefAt("g", 0), BodyLine>>
MarkedOnceFile ==
    <<TsImportLine, EmptyLine, MarkerLine(0, "f"), DefAt("f", 0), BodyLine,
      DefAt("g", 0), BodyLine>>
TwiceFile ==
    <<DefAt("f", 0), BodyLine, ClassLine("C"), DefAt("f", 4), StmtLine("pass", 8),
      DefAt("h", 4), StmtLine("pass", 8)>>
BrokenFile == <<DefAt("f", 0), BodyLine, BadLine>>
CleanFile == <<DefAt("g", 0), BodyLine>>
NestedFile ==
    <<DefAt("g", 0), DefAt("f", 4), StmtLine("pass", 8), StmtLine("return f", 4)>>

\* function_name.split("."), on the names the lists hold.
split(function_name) ==
    CASE function_name = "C.f" -> <<"C", "f">>
      [] function_name = "D.f" -> <<"D", "f">>
      [] OTHER -> <<function_name>>

\* by_file[file_path].append(function_name), by_file being a dict in
\* insertion order: a sequence of [file_path, functions].
AddTo(by_file, file_path, function_name) ==
    IF \E i \in 1..Len(by_file) : by_file[i].file_path = file_path
    THEN [i \in 1..Len(by_file) |->
            IF by_file[i].file_path = file_path
            THEN [by_file[i] EXCEPT !.functions = Append(@, function_name)]
            ELSE by_file[i]]
    ELSE Append(by_file, [file_path |-> file_path, functions |-> <<function_name>>])

RECURSIVE AddToEach(_, _, _)
AddToEach(by_file, paths, function_name) ==
    IF paths = <<>> THEN by_file
    ELSE AddToEach(AddTo(by_file, Head(paths), function_name), Tail(paths), function_name)

\* main, lines 205-225: the items grouped by file; rglob is the order in
\* which root_path.rglob("*.py") yields the files.
RECURSIVE GroupByFile(_, _, _)
GroupByFile(by_file, dead_code_items, rglob) ==
    IF dead_code_items = <<>> THEN by_file
    ELSE LET item == Head(dead_code_items)
             parts == split(item.function_name)
             function_name == parts[Len(parts)]
         IN  GroupByFile(IF item.file_path # "None"
                         THEN AddTo(by_file, item.file_path, function_name)
                         ELSE AddToEach(by_file, rglob, function_name),
                         Tail(dead_code_items), rglob)

RmPaths == {"a.py", "b.py"}
RglobOrders == { <<"a.py", "b.py">>, <<"b.py", "a.py">> }
Item(function_name, file_path) == [function_name |-> function_name, file_path |-> file_path]

\* The lists given with --input (file_path set) or --functions (no file_path).
DeadLists ==
    { <<Item("f", "a.py")>>,
      <<Item("f", "a.py"), Item("f", "b.py")>>,
      <<Item("C.f", "a.py")>>,
      <<Item("D.f", "a.py"), Item("f", "gone.py")>>,
      <<Item("f", "None")>> }

\* The rows reconciliation reported: active, registered on day 0.
DeadRow(file_path) ==
    TombstoneRow(TombstoneTracker("p1", FALSE, TRUE),
                 _generate_tombstone_id("p1", "f", file_path, 1),
                 "f", file_path, 1, DefaultReason, 0)

RemoveInit ==
    /\ now = 0
    /\ tombstones = {DeadRow(p) : p \in RmPaths}
    /\ events = EmptyBag
    /\ report = NoReport
    /\ reRegistered = FALSE
    /\ TrackerInit
    /\ InjectIdle
    /\ ScoreIdle
    /\ ExtraIdle
    /\ \E a \in {PlainFile, OnlyMethodFile, MarkedFile, MarkedOnceFile, TwiceFile,
                 BrokenFile, CleanFile, NestedFile},
          b \in {PlainFile, CleanFile} :
            files = [p \in RmPaths |-> IF p = "a.py" THEN a ELSE b]
    /\ rm = NoRemoval
    /\ printed = <<>>
    /\ hist = NoHistory(files)

\* main, lines 180-203: the arguments are read and the items grouped.  A
\* later run of the same behaviour is a re-run: it is given the list of the
\* run before it.
StartRemove(dead_code_items, dry_run, rglob) ==
    /\ rm.phase = "idle"
    /\ hist.runs < MaxRemoveRuns
    /\ hist.runs > 0 => dead_code_items = hist.last.items
    /\ rm' = [NoRemoval EXCEPT !.phase = "running", !.dry_run = dry_run,
                               !.items = dead_code_items,
                               !.by_file = GroupByFile(<<>>, dead_code_items, rglob),
                               !.before = files]
    /\ printed' = <<>>
    /\ UNCHANGED <<storeVars, trackerVars, injectVars, scoreVars, extraVars, files, hist>>

\* main, lines 229-238: one turn of the loop over by_file.  io1 is what the
\* file system does to remove_functions_from_file, io2 what it does to
\* remove_tombstone_imports.
ProcessFile(io1, io2) ==
    /\ rm.phase = "running"
    /\ rm.by_file # <<>>
    /\ LET file_path == Head(rm.by_file).file_path
           functions == Head(rm.by_file).functions
       IN  IF file_path \notin DOMAIN files
           THEN /\ rm' = [rm EXCEPT !.by_file = Tail(@)]
                /\ UNCHANGED <<files, printed>>
           ELSE LET r == remove_functions_from_file(file_path, functions, rm.dry_run,
                                                    files[file_path], io1)
                    cleans == r.ret # <<>> /\ ~rm.dry_run
                    c == IF cleans
                         THEN remove_tombstone_imports(file_path, r.lines, io2)
                         ELSE [ret |-> FALSE, lines |-> r.lines, wrote |-> FALSE,
                               raised |-> FALSE]
                    raised == \/ r.out # <<>> /\ r.out[1].msg = "Error processing"
                              \/ c.raised
               IN  /\ files' = [files EXCEPT ![file_path] = c.lines]
                   /\ printed' = printed \o r.out
                                 \o (IF c.ret THEN <<Printed("Cleaned up tombstone imports",
                                                             file_path, <<>>)>>
                                     ELSE <<>>)
                   /\ rm' = [rm EXCEPT
                               !.by_file = Tail(@),
                               !.total_removed = @ + Len(r.ret),
                               !.writes = @ + (IF r.wrote THEN 1 ELSE 0)
                                            + (IF c.wrote THEN 1 ELSE 0),
                               !.faults = IF raised THEN @ \cup {file_path} ELSE @,
                               !.removed = IF cleans
                                           THEN @ \cup {<<file_path, r.ret[i]>> :
                                                          i \in 1..Len(r.ret)}
                                           ELSE @]
    /\ UNCHANGED <<storeVars, trackerVars, injectVars, scoreVars, extraVars, hist>>

RunRecord(aborted) ==
    [items |-> rm.items, dry_run |-> rm.dry_run, before |-> rm.before, after |-> files,
     writes |-> rm.writes, faults |-> rm.faults, removed |-> rm.removed,
     aborted |-> aborted]

\* main, lines 240-248: the totals are printed and the process ends.
FinishRemove ==
    /\ rm.phase = "running"
    /\ rm.by_file = <<>>
    /\ hist' = [hist EXCEPT !.runs = @ + 1, !.last = RunRecord(FALSE)]
    /\ rm' = NoRemoval
    /\ printed' = Append(printed, Printed(IF rm.dry_run THEN "Would remove" ELSE "Removed",
                                          "total", <<>>))
    /\ UNCHANGED <<storeVars, trackerVars, injectVars, scoreVars, extraVars, files>>

\* The process is terminated between two files of the batch.
AbortRemove ==
    /\ rm.phase = "running"
    /\ rm.by_file # <<>>
    /\ hist' = [hist EXCEPT !.runs = @ + 1, !.last = RunRecord(TRUE)]
    /\ rm' = NoRemoval
    /\ UNCHANGED <<storeVars, trackerVars, injectVars, scoreVars, extraVars, files, printed>>

RemoveNext ==
    \/ \E l \in DeadLists, d \in BOOLEAN, o \in RglobOrders : StartRemove(l, d, o)
    \/ \E io1 \in IoOutcomes, io2 \in IoOutcomes : ProcessFile(io1, io2)
    \/ FinishRemove
    \/ AbortRemove

RemoveSpec == RemoveInit /\ [][RemoveNext]_vars

---------------------------------------------------------------------------
(* remove_dead_code.py: the two removal strategies side by side *)

\* ast.walk(tree) narrowed to the function definitions, lines 104-105: every
\* def of the tree, the nested ones and the methods included.
RECURSIVE FunctionDefs(_)
FunctionDefs(nodes) ==
    IF nodes = <<>> THEN <<>>
    ELSE (IF Head(nodes).k = "def" THEN <<Head(nodes)>> ELSE <<>>)
         \o FunctionDefs(Head(nodes).body) \o FunctionDefs(Tail(nodes))

\* node.decorator_list[0].lineno: the line of the first of the count
\* decorators above line j.
RECURSIVE DecoratorListLine(_, _, _)
DecoratorListLine(lines, j, count) ==
    IF count = 0 \/ j <= 1 THEN j
    ELSE IF lines[j - 1].k = "marker"
         THEN DecoratorListLine(lines, j - 1, count - 1)
         ELSE DecoratorListLine(lines, j - 1, count)

\* Lines 104-114: the (start_line, end_line) of every def whose name is in
\* function_names, counted from 0, end_line exclusive.
RangesToRemove(lines, nodes, function_names) ==
    LET defs == FunctionDefs(nodes)
    IN  { << (IF defs[i].decos # <<>>
              THEN DecoratorListLine(lines, defs[i].lineno, Len(defs[i].decos))
              ELSE defs[i].lineno) - 1,
             defs[i].end_lineno >> :
          i \in {j \in 1..Len(defs) : defs[j].n \in SeqToSet(function_names)} }

\* ranges_to_remove.sort(reverse=True)
RECURSIVE SortReverse(_)
SortReverse(ranges) ==
    IF ranges = {} THEN <<>>
    ELSE LET top == CHOOSE r \in ranges :
                        \A q \in ranges : q[1] < r[1] \/ (q[1] = r[1] /\ q[2] <= r[2])
         IN  <<top>> \o SortReverse(ranges \ {top})

\* del lines[start:end]
DelSlice(lines, start, end) ==
    SubSeq(lines, 1, Min(start, Len(lines)))
        \o SubSeq(lines, Min(end, Len(lines)) + 1, Len(lines))

\* Lines 120-121: the ranges are deleted one after the other, each with the
\* bounds computed on the text as it was read.
RECURSIVE DelRanges(_, _)
DelRanges(lines, ranges) ==
    IF ranges = <<>> THEN lines
    ELSE DelRanges(DelSlice(lines, Head(ranges)[1], Head(ranges)[2]), Tail(ranges))

\* remove_functions_by_line, lines 90-123: the lines of the new text; ast.parse
\* raises on a text that does not parse.
remove_functions_by_line(source, file_path, function_names) ==
    LET tree == Parse(source)
    IN  IF ~tree.ok THEN [raised |-> TRUE, lines |-> source]
        ELSE [raised |-> FALSE,
              lines |-> DelRanges(source,
                                  SortReverse(RangesToRemove(source, tree.nodes,
                                                             function_names)))]

\* Lines 56-72: FunctionRemover and ast.unparse; a text nothing was removed
\* from is left as it is.
remove_structurally(source, function_names) ==
    LET tree == Parse(source)
        remover == Visit(tree.nodes, SeqToSet(function_names))
    IN  IF ~tree.ok THEN [raised |-> TRUE, lines |-> source, removed |-> <<>>]
        ELSE IF remover.removed = <<>>
        THEN [raised |-> FALSE, lines |-> source, removed |-> <<>>]
        ELSE [raised |-> FALSE, lines |-> Unparse(remover.nodes, 0, <<>>),
              removed |-> remover.removed]

\* Two functions to remove, one nested in the other, and a function to keep.
NestedBothFile ==
    <<DefAt("f", 0), DefAt("g", 4), StmtLine("pass", 8), StmtLine("return g", 4),
      DefAt("h", 0), BodyLine>>

\* The texts the strategies are given (texts that parse: the fallback is
\* entered after line 56 has parsed the text) and the lists of names.
StrategyFiles ==
    { PlainFile, OnlyMethodFile, MarkedFile, MarkedOnceFile, TwiceFile, CleanFile,
      NestedFile, NestedBothFile }
NameLists == { <<"f">>, <<"g">>, <<"h">>, <<"f", "g">>, <<"g", "h">> }

FallbackInit ==
    /\ StoreIdle
    /\ TrackerInit
    /\ InjectIdle
    /\ ScoreIdle
    /\ RemoveIdle
    /\ InventoryIdle
    /\ SingletonIdle
    /\ fb \in { [source |-> s, function_names |-> names, by_line |-> NotRun,
                structural |-> NotRun] : s \in StrategyFiles, names \in NameLists }

\* new_source = remove_functions_by_line(source, file_path, function_names)
RemoveByLine ==
    /\ fb.source # <<>>
    /\ ~fb.by_line.done
    /\ LET r == remove_functions_by_line(fb.source, "a.py", fb.function_names)
       IN  fb' = [fb EXCEPT !.by_line = [done |-> TRUE, raised |-> r.raised,
                                         lines |-> r.lines, removed |-> <<>>]]
    /\ UNCHANGED <<storeVars, trackerVars, injectVars, scoreVars, removeVars,
                   inventoryVars, singletonVars>>

\* new_source = ast.unparse(remover.visit(tree))
RemoveStructurally ==
    /\ fb.source # <<>>
    /\ ~fb.structural.done
    /\ LET r == remove_structurally(fb.source, fb.function_names)
       IN  fb' = [fb EXCEPT !.structural = [done |-> TRUE, raised |-> r.raised,
                                            lines |-> r.lines, removed |-> r.removed]]
    /\ UNCHANGED <<storeVars, trackerVars, injectVars, scoreVars, removeVars,
                   inventoryVars, singletonVars>>

FallbackNext == RemoveByLine \/ RemoveStructurally

FallbackSpec == FallbackInit /\ [][FallbackNext]_vars

---------------------------------------------------------------------------
(* tracker.py: the default tracker *)

\* def get_tracker():
\*     global _default_tracker
\*     if _default_tracker is None:
\*         _default_tracker = TombstoneTracker()
\*     return _default_tracker
\* The interpreter may switch threads between any two of the steps: the test
\* of the global, the constructor call (which reads the environment and may
\* open the store client), the store to the global and the load for the
\* return. tombstone(name, reason) enters through get_tracker() as well.
GetterEntries == {"get_tracker", "tombstone"}

restVars == <<storeVars, trackerVars, injectVars, scoreVars, removeVars, inventoryVars, fb>>

SingletonInit ==
    /\ StoreIdle
    /\ TrackerInit
    /\ InjectIdle
    /\ ScoreIdle
    /\ RemoveIdle
    /\ InventoryIdle
    /\ fb = NoFallback
    /\ SingletonIdle

GetTrackerCall(t, via) ==
    /\ getters[t].pc = "idle"
    /\ getters[t].calls < MaxGetCalls
    /\ getters' = [getters EXCEPT ![t].pc = "test", ![t].via = via,
                                  ![t].made = NoInstance]
    /\ UNCHANGED <<_default_tracker, constructed, restVars>>

\* if _default_tracker is None:
GetTrackerTest(t) ==
    /\ getters[t].pc = "test"
    /\ getters' = [getters EXCEPT ![t].pc =
                      IF _default_tracker = NoInstance THEN "construct" ELSE "return"]
    /\ UNCHANGED <<_default_tracker, constructed, restVars>>

\* TombstoneTracker(): a new instance, not yet stored
GetTrackerConstruct(t) ==
    /\ getters[t].pc = "construct"
    /\ constructed' = constructed + 1
    /\ getters' = [getters EXCEPT ![t].pc = "store", ![t].made = constructed + 1]
    /\ UNCHANGED <<_default_tracker, restVars>>

\* _default_tracker = <the new instance>
GetTrackerStore(t) ==
    /\ getters[t].pc = "store"
    /\ _default_tracker' = getters[t].made
    /\ getters' = [getters EXCEPT ![t].pc = "return"]
    /\ UNCHANGED <<constructed, restVars>>

\* return _default_tracker
GetTrackerReturn(t) ==
    /\ getters[t].pc = "return"
    /\ getters' = [getters EXCEPT ![t].pc = "idle",
                                  ![t].calls = @ + 1,
                                  ![t].returned = Append(@, _default_tracker)]
    /\ UNCHANGED <<_default_tracker, constructed, restVars>>

SingletonNext ==
    \/ \E t \in Threads, via \in GetterEntries : GetTrackerCall(t, via)
    \/ \E t \in Threads : GetTrackerTest(t)
    \/ \E t \in Threads : GetTrackerConstruct(t)
    \/ \E t \in Threads : GetTrackerStore(t)
    \/ \E t \in Threads : GetTrackerReturn(t)

SingletonSpec == SingletonInit /\ [][SingletonNext]_vars

---------------------------------------------------------------------------
(* Properties of reconciliation and registration, checked under Spec *)

HasEvent(tombstone_id) ==
    \E e \in BagToSet(events) : e.tombstone_id = tombstone_id

\* The confirmed-dead set as the design states it.
ExpectedDead(project_name, days) ==
    {r \in tombstones : /\ r.project_name = project_name
                        /\ r.status = "active"
                        /\ r.registered_at < now - days
                        /\ ~HasEvent(r.tombstone_id)}

\* C1: check_dead_code(project, days) returns exactly the active tombstones
\* of the project registered strictly before now - days that have no event
\* with their tombstone_id.
C1_CheckDeadCodeExact ==
    report # NoReport => report.dead = ExpectedDead(report.project, report.days)

\* A run that reports one tombstone and leaves out another that has an event.
C1_Witness ==
    /\ report # NoReport
    /\ report.dead # {}
    /\ \E r \in tombstones : /\ r.project_name = report.project
                             /\ r.status = "active"
                             /\ r.registered_at < now - report.days
                             /\ HasEvent(r.tombstone_id)
                             /\ r \notin report.dead
    /\ \E r \in tombstones : /\ r.project_name = report.project
                             /\ r.status # "active"

\* C2: a tombstone whose id has an event is in the result of no
\* reconciliation run, for any project and days argument; events stay in the
\* store from step to step, and an active tombstone with an event stays active.
C2_EventExoneratesForever ==
    /\ [](\A p \in Projects, d \in DaysArgs :
            \A r \in check_dead_code(p, d) : ~HasEvent(r.tombstone_id))
    /\ [][\A r \in tombstones :
            HasEvent(r.tombstone_id) =>
                /\ HasEvent(r.tombstone_id)'
                /\ r.status = "active" =>
                      \E r2 \in tombstones' : /\ r2.tombstone_id = r.tombstone_id
                                              /\ r2.status = "active"]_vars

\* A run whose window starts after the only event of an old active tombstone.
C2_Witness ==
    /\ report # NoReport
    /\ \E r \in tombstones :
          /\ r.project_name = report.project
          /\ r.status = "active"
          /\ r.registered_at < now - report.days
          /\ HasEvent(r.tombstone_id)
          /\ \A e \in BagToSet(events) :
                e.tombstone_id = r.tombstone_id => e.triggered_at < now - report.days - 1
          /\ r \notin report.dead

\* C10: two rows of the tombstones table for the same (project, file path,
\* function name, line number) are one row: registering a location again
\* gives the same tombstone_id and replaces the row.
C10_OneRecordPerLocation ==
    \A r1, r2 \in tombstones :
        ( /\ r1.project_name = r2.project_name
          /\ r1.file_path = r2.file_path
          /\ r1.function_name = r2.function_name
          /\ r1.line_number = r2.line_number ) => r1 = r2

\* The same location upserted twice, on different days, and one row stored.
C10_Witness ==
    /\ reRegistered
    /\ Cardinality(tombstones) = 1
    /\ \E r \in tombstones : r.status = "active" /\ r.registered_at > 0

---------------------------------------------------------------------------
(* Properties of the runtime tracker, checked under TrackerSpec *)

\* C4: a wrapper call that has finished has called the original callable
\* exactly once, with the arguments it was given, and ends as that call
\* ended; _record_event has returned false when there is no client or the
\* insert raised.
C4_WrapperTransparent ==
    \A t \in Threads :
        /\ pc[t] = "done" =>
              /\ frame[t].calls = 1
              /\ frame[t].passed = frame[t].args
              /\ frame[t].result = Call(frame[t].w.func, frame[t].args)
        /\ pc[t] \in {"call", "done"} =>
              LET tr == frame[t].w.tracker
              IN  /\ ((~tr.dry_run /\ ~tr._client) \/ frame[t].outcome = "raise")
                        => frame[t].recorded = "False"
                  /\ frame[t].recorded \in {"True", "False"}
        /\ pc[t] \in {"record", "insert", "call"} => frame[t].calls = 0

\* A call whose insert raised and whose original callable raised as well.
C4_Witness ==
    \E t \in Threads :
        /\ pc[t] = "done"
        /\ frame[t].outcome = "raise"
        /\ frame[t].recorded = "False"
        /\ frame[t].calls = 1
        /\ frame[t].result = [kind |-> "raise", value |-> "AttributeError"]

\* Wrapper calls on a store-backed tracker that have not yet got an answer.
InFlight ==
    Cardinality({t \in Threads : pc[t] \in {"record", "insert"}
                                  /\ frame[t].w.tracker._client})

\* C5: on store-backed trackers the table holds one event row per call whose
\* insert did not raise, however the calls of the threads interleave, and no
\* step removes or changes a stored row.
C5_OneEventPerCall ==
    /\ [](BagCardinality(events) + failed + InFlight = invoked.store)
    /\ [][events \sqsubseteq events']_vars

\* Two overlapping calls of the same callable, both recorded.
C5_Witness ==
    /\ invoked.store = 2
    /\ failed = 0
    /\ BagCardinality(events) = 2
    /\ \A t \in Threads : pc[t] \in {"call", "done"} /\ frame[t].outcome = "ok"
    /\ \E e \in BagToSet(events) : events[e] = 2

\* C6: every wrapper call reaches the call of the original callable, also
\* when the store never answers the insert.
C6_OriginalEventuallyInvoked ==
    \A t \in Threads :
        (pc[t] = "record") ~> (pc[t] = "done" /\ frame[t].calls = 1)

---------------------------------------------------------------------------
(* Properties of the injector, checked under InjectSpec *)

\* get_tracker(), tracker.py:207-212: the tracker behind the module-level
\* @tombstone decorator the injector writes; its project_name is the default.
DefaultTracker == TombstoneTracker("default", FALSE, TRUE)

\* The paths a module of the analysed tree can be loaded from: relative to
\* the analysis root, or absolute.
LoadPaths == {SourceFile, "/app/utils.py"}

\* co_firstlineno of the function defined at line i: the line of the first
\* of the decorators stacked on it.
RECURSIVE FirstDecoratorLine(_, _)
FirstDecoratorLine(lines, i) ==
    IF i > 1 /\ lines[i - 1].k = "marker" THEN FirstDecoratorLine(lines, i - 1) ELSE i

\* The callable the edited file defines at def line i, once decorated.
WrappedAt(lines, i, path) ==
    [tracker |-> DefaultTracker, name |-> "None", reason |-> DefaultReason,
     func |-> [__name__ |-> lines[i].n, co_filename |-> path,
               co_firstlineno |-> FirstDecoratorLine(lines, i)]]

\* The id an element is registered under, from its CodeElement.
RegistrationId(project, element) ==
    _generate_tombstone_id(project, element.name, element.file_path, element.line_number)

\* C3: for every element the injector has instrumented, the tombstone_id of
\* the event its decorated function records when called equals the id
\* computed from the element's CodeElement (relative path, name, line).
C3_RuntimeIdMatchesRegistration ==
    \A x \in instrumented :
        \A i \in 1..Len(file), path \in LoadPaths :
            ( /\ file[i].k = "def"
              /\ file[i].n = x.element.name
              /\ i > 1
              /\ file[i - 1].k = "marker" )
            => TombstoneEvent(WrappedAt(file, i, path), now).tombstone_id
                 = RegistrationId(x.project, x.element)

\* C7: every element whose file the injector has edited has an active row
\* in the tombstones table.
C7_InstrumentedIsRegistered ==
    \A x \in instrumented :
        \E r \in tombstones : /\ r.status = "active"
                              /\ r.function_name = x.element.name
                              /\ r.file_path = x.element.file_path
                              /\ r.line_number = x.element.line_number

\* C8: every marker line in the file stands on the line just before the def
\* line of the element it was written for.
C8_MarkerPrecedesOwnDeclaration ==
    \A i \in 1..Len(file) :
        file[i].k = "marker" =>
            /\ i < Len(file)
            /\ file[i + 1].k = "def"
            /\ file[i + 1].n = file[i].n

\* C9: when the injector has run twice, each time with room for every
\* candidate (the default --max-changes), the file after the second run is
\* the file after the first.
C9_SecondRunEditsNothing ==
    ( /\ Len(history) >= 2
      /\ history[1].max_changes = DefaultMaxChanges
      /\ history[2].max_changes = DefaultMaxChanges )
    => history[2].lines = history[1].lines

TombstoneImportsAt(lines) == {i \in 1..Len(lines) : IsTombstoneImport(lines[i])}
TopImportsAt(lines) ==
    {i \in 1..Len(lines) :
        /\ lines[i].k = "import"
        /\ \A j \in 1..(i - 1) : lines[j].k # "def"}

\* C26: once the injector has put a marker into the file, in one run or
\* several, the file holds the tombstone import exactly once, and below
\* every ordinary import at the top of the file.
C26_ImportPresentOnce ==
    instrumented # {} =>
        /\ Cardinality(TombstoneImportsAt(file)) = 1
        /\ \A i \in TopImportsAt(file) : \E j \in TombstoneImportsAt(file) : j > i

---------------------------------------------------------------------------
(* Properties of the remover, checked under RemoveSpec *)

\* The declarations removed from a file by the running removal, as
\* <<file_path, name>>, and the files the run has finished with.
RemovedFrom(file_path) == \E x \in rm.removed : x[1] = file_path
Processed(file_path) ==
    /\ rm.phase = "running"
    /\ file_path \in DOMAIN files
    /\ \E i \in 1..Len(rm.items) :
          rm.items[i].file_path \in {file_path, "None"}
    /\ \A i \in 1..Len(rm.by_file) : rm.by_file[i].file_path # file_path

\* C12: once the remover has removed a function from a file (not a dry
\* run), the tombstone row of that function and file has status removed.
C12_RemovalMarksTombstoneRemoved ==
    \A x \in rm.removed :
        \A r \in tombstones :
            (r.file_path = x[1] /\ r.function_name = x[2]) => r.status = "removed"

\* The last line of the block that starts after line i - 1: the last line
\* indented more than ind before the first line that is not.
RECURSIVE BlockEnd(_, _, _, _)
BlockEnd(lines, i, ind, last) ==
    IF i > Len(lines) THEN last
    ELSE IF IsTrivia(lines[i]) THEN BlockEnd(lines, i + 1, ind, last)
    ELSE IF lines[i].ind > ind THEN BlockEnd(lines, i + 1, ind, i)
    ELSE last

\* The text of every declaration of function n in the file: its def line
\* and its body, comments included.
DeclTexts(lines, n) ==
    { SubSeq(lines, j, BlockEnd(lines, j + 1, lines[j].ind, j)) :
        j \in {i \in 1..Len(lines) : lines[i].k = "def" /\ lines[i].n = n} }

\* C13: when the remover has removed f from a file, every function of the
\* file that is not on the list has the text it had before the run.
C13_OtherFunctionsUnchanged ==
    \A file_path \in DOMAIN files :
        RemovedFrom(file_path) =>
            \A n \in {"g", "h"} :
                DeclTexts(files[file_path], n) = DeclTexts(rm.before[file_path], n)

\* C14: when the remover has removed f from a file and no exception was
\* raised, the file parses and holds no def of f.
C14_FileParsesAfterRemoval ==
    \A file_path \in DOMAIN files :
        (RemovedFrom(file_path) /\ file_path \notin rm.faults) =>
            /\ Parse(files[file_path]).ok
            /\ \A x \in rm.removed :
                  x[1] = file_path => DeclTexts(files[file_path], x[2]) = {}

\* A qualified name Class.method resolves in the file when class Class
\* holds a def of method.
Resolves(parts, lines) ==
    \E i \in 1..Len(lines) :
        /\ lines[i].k = "class"
        /\ lines[i].n = parts[1]
        /\ \E j \in (i + 1)..BlockEnd(lines, i + 1, 0, i) :
              lines[j].k = "def" /\ lines[j].n = parts[2] /\ lines[j].ind = 4

\* An item is ambiguous in a file: a qualified name with no declaration to
\* resolve to, or a name the file declares more than once.
Ambiguous(function_name, lines) ==
    LET parts == split(function_name)
    IN  \/ Len(parts) > 1 /\ ~Resolves(parts, lines)
        \/ Cardinality({i \in 1..Len(lines) :
                          lines[i].k = "def" /\ lines[i].n = parts[Len(parts)]}) > 1

\* C15: when the run has finished with the file of an item that is
\* ambiguous in it (not a dry run), the file is as it was and a warning
\* naming the file has been printed.
C15_AmbiguousTargetUntouched ==
    \A i \in 1..Len(rm.items) :
        LET item == rm.items[i]
        IN  ( /\ ~rm.dry_run
              /\ Processed(item.file_path)
              /\ Parse(rm.before[item.file_path]).ok
              /\ Ambiguous(item.function_name, rm.before[item.file_path]) )
            => /\ files[item.file_path] = rm.before[item.file_path]
               /\ \E m \in 1..Len(printed) :
                     /\ printed[m].file = item.file_path
                     /\ printed[m].msg \in {"Warning", "Error processing"}

\* C16: a file whose processing raised an exception is as it was before the
\* run, and the failure has been printed.
C16_FailedFileUntouched ==
    \A file_path \in rm.faults :
        /\ files[file_path] = rm.before[file_path]
        /\ \E m \in 1..Len(printed) :
              printed[m].file = file_path /\ printed[m].msg = "Error processing"

\* No def the remover would remove is left in any file of the list.
TargetsAbsent(fs, by_file) ==
    \A i \in 1..Len(by_file) :
        by_file[i].file_path \in DOMAIN fs =>
            LET tree == Parse(fs[by_file[i].file_path])
            IN  tree.ok => Visit(tree.nodes, SeqToSet(by_file[i].functions)).removed = <<>>

\* The files a single run leaves when it goes through the whole list and
\* nothing fails.
RECURSIVE CompleteRun(_, _)
CompleteRun(fs, by_file) ==
    IF by_file = <<>> THEN fs
    ELSE LET file_path == Head(by_file).file_path
         IN  IF file_path \notin DOMAIN fs THEN CompleteRun(fs, Tail(by_file))
             ELSE LET r == remove_functions_from_file(file_path, Head(by_file).functions,
                                                      FALSE, fs[file_path], IoOk)
                      c == IF r.ret # <<>>
                           THEN remove_tombstone_imports(file_path, r.lines, IoOk).lines
                           ELSE r.lines
                  IN  CompleteRun([fs EXCEPT ![file_path] = c], Tail(by_file))

\* C17: a re-run with the same list that finds the listed functions gone
\* writes nothing and changes no file; and after a re-run that went through
\* the whole list, the files are those one complete run would have left.
C17_RerunChangesNothing ==
    ( /\ hist.runs >= 2
      /\ rm.phase = "idle"
      /\ ~hist.last.dry_run
      /\ ~hist.last.aborted
      /\ hist.last.faults = {} )
    => LET by_file == GroupByFile(<<>>, hist.last.items, <<"a.py", "b.py">>)
       IN  /\ TargetsAbsent(hist.last.before, by_file) =>
                 /\ hist.last.writes = 0
                 /\ hist.last.after = hist.last.before
           /\ files = CompleteRun(hist.files0, by_file)

---------------------------------------------------------------------------
(* Properties of the scoring, checked under ScoreSpec *)

IsDunderName(n) == startswith(n, <<"_", "_">>) /\ endswith(n, <<"_", "_">>)

\* C18 as stated: every scored element whose declared name starts and ends
\* with a double underscore, of whatever kind, has confidence 0.
C18_DunderNameScoresZero ==
    (analyses > 0 /\ IsDunderName(decl.node.name)) => elem.confidence = 0

\* C18, amended: every scored function or method element whose declared name
\* starts and ends with a double underscore has confidence 0, whatever its
\* docstring, name keywords and reference set, and no threshold above 0
\* selects it.
C18_DunderFunctionScoresZero ==
    (analyses > 0 /\ decl.kind = "def" /\ IsDunderName(decl.node.name))
    => /\ elem.confidence = 0
       /\ \A threshold \in 1..MaxConfidence : ~(elem.confidence >= threshold)

\* A dunder method with a keyword in name and docstring and no references.
C18_Witness ==
    /\ analyses > 0
    /\ decl.kind = "def"
    /\ decl.class_name # <<>>
    /\ IsDunderName(decl.node.name)
    /\ NameHit(elem)
    /\ DocHit(elem)
    /\ refs = {}
    /\ elem.confidence = 0

\* C19: between two analyses of a declaration with the same name and the
\* same reference set, the one whose docstring holds a keyword gives a
\* confidence at least that of the one whose docstring holds none.
C19_DocKeywordNeverLowers ==
    ( /\ analyses >= 2
      /\ prev.refs = refs
      /\ prev.element.name = elem.name
      /\ ~DocHit(prev.element)
      /\ DocHit(elem) )
    => elem.confidence >= prev.element.confidence

\* A keyword added to the docstring raised the confidence of a private,
\* unreferenced function.
C19_Witness ==
    /\ analyses >= 2
    /\ prev.refs = refs
    /\ refs = {}
    /\ elem.is_private
    /\ ~DocHit(prev.element)
    /\ DocHit(elem)
    /\ elem.confidence > prev.element.confidence

\* C20: the confidence of every scored element lies between 0 and 1 (in
\* tenths: 0..10), also when the increments add up to more.
C20_ConfidenceInUnitInterval ==
    analyses > 0 => (elem.confidence >= 0 /\ elem.confidence <= MaxConfidence)

\* An element whose increments add up to 1.2 and whose confidence is 1.0.
C20_Witness ==
    /\ analyses > 0
    /\ RawScore(ElementOf(decl), refs) = 12
    /\ elem.confidence = MaxConfidence

\* The text a reason's keyword was looked for in.
ReasonText(element, reason) ==
    IF reason.msg = "Name contains" THEN lower(element.name)
    ELSE lower(element.docstring.text)

\* C24: the confidence of every scored element that is not a dunder is
\* min(1, a + b + c + d): a = 0.3 when the lower-cased name holds a keyword,
\* b = 0.4 when the lower-cased docstring holds one, c = 0.3 for an empty
\* reference set, else 0.2 for the set of its own file alone, d = 0.2 for a
\* private element with at most one referencing file; a reason is given for
\* a and for b exactly when they apply, and the keyword it names is the
\* first of the keyword list that the text holds.
C24_ConfidenceIsCappedSum ==
    (analyses > 0 /\ ~elem.is_dunder) =>
        LET kw == DEAD_CODE_KEYWORDS
            a == IF \E i \in 1..Len(kw) : Contains(kw[i], lower(elem.name))
                 THEN 3 ELSE 0
            b == IF /\ elem.docstring.some
                    /\ \E i \in 1..Len(kw) :
                          Contains(kw[i], lower(elem.docstring.text))
                 THEN 4 ELSE 0
            c == IF refs = {} THEN 3 ELSE IF refs = {elem.file_path} THEN 2 ELSE 0
            d == IF elem.is_private /\ Cardinality(refs) <= 1 THEN 2 ELSE 0
            total == a + b + c + d
        IN  /\ elem.confidence = (IF total > 10 THEN 10 ELSE total)
            /\ (a > 0) <=> \E m \in 1..Len(elem.reasons) :
                              elem.reasons[m].msg = "Name contains"
            /\ (b > 0) <=> \E m \in 1..Len(elem.reasons) :
                              elem.reasons[m].msg = "Docstring mentions"
            /\ \A m \in 1..Len(elem.reasons) :
                  elem.reasons[m].keyword # <<>> =>
                      \E i \in 1..Len(kw) :
                          /\ elem.reasons[m].keyword = kw[i]
                          /\ Contains(kw[i], ReasonText(elem, elem.reasons[m]))
                          /\ \A j \in 1..(i - 1) :
                                ~Contains(kw[j], ReasonText(elem, elem.reasons[m]))

\* A method scored on name and docstring together, where the keyword named
\* is not the one that comes first in the text.
C24_Witness ==
    /\ analyses > 0
    /\ ~elem.is_dunder
    /\ elem.element_type = "method"
    /\ refs = {elem.file_path}
    /\ elem.confidence = 9
    /\ \E m \in 1..Len(elem.reasons) :
          /\ elem.reasons[m] = Reason("Name contains", <<"l", "e", "g", "a", "c", "y">>)
          /\ startswith(elem.name, <<"C", ".", "o", "l", "d">>)
    /\ \E m \in 1..Len(elem.reasons) :
          /\ elem.reasons[m] = Reason("Docstring mentions", <<"o", "l", "d">>)
          /\ startswith(elem.docstring.text, <<"u", "n", "u", "s", "e", "d">>)

---------------------------------------------------------------------------
(* Properties of the inventory and the selection, checked under InventorySpec *)

\* The place of a file in the tree, and the order the design gives the
\* elements: by file, then by the line of the declaration.
FileIndex(path) == CHOOSE i \in 1..Len(srcTree) : srcTree[i].path = path
DeclaredBefore(e1, e2) ==
    \/ FileIndex(e1.file_path) < FileIndex(e2.file_path)
    \/ e1.file_path = e2.file_path /\ e1.line_number <= e2.line_number

Count(seq, e) == Cardinality({i \in 1..Len(seq) : seq[i] = e})

\* C21: get_dead_code_candidates returns the elements of the analyzer with
\* confidence at least the threshold, each as often as the analyzer holds
\* it and no other, highest confidence first, and elements of equal
\* confidence by file in discovery order and then by declaration line.
C21_CandidatesFilteredAndOrdered ==
    selected.called =>
        LET es == selected.elements
            out == selected.returned
        IN  /\ \A i \in 1..Len(out) :
                  /\ out[i].confidence >= selected.min_confidence
                  /\ Count(es, out[i]) > 0
            /\ \A i \in 1..Len(es) :
                  Count(out, es[i]) =
                      IF es[i].confidence >= selected.min_confidence
                      THEN Count(es, es[i]) ELSE 0
            /\ \A i \in 1..(Len(out) - 1) :
                  /\ out[i].confidence >= out[i + 1].confidence
                  /\ out[i].confidence = out[i + 1].confidence
                        => DeclaredBefore(out[i], out[i + 1])

\* C22: two analyze() runs over the tree, both with every file read in both
\* passes, leave the same ordered list of elements (names, locations,
\* reference counts, confidences, reasons) and the same references, whether
\* the second ran on the analyzer of the first or on a fresh one.
C22_AnalysisIsDeterministic ==
    (lastRun.runs >= 2 /\ lastRun.cur.unread = {} /\ lastRun.prev.unread = {})
    => /\ lastRun.cur.elements = lastRun.prev.elements
       /\ lastRun.cur.references = lastRun.prev.references

\* A second analyze() on an analyzer that still held the elements of the
\* first, over a tree with elements of equal confidence.
C22_Witness ==
    /\ lastRun.runs >= 2
    /\ lastRun.cur.unread = {}
    /\ lastRun.prev.unread = {}
    /\ ~lastRun.cur.fresh
    /\ Len(lastRun.cur.elements) >= 4
    /\ \E i \in 1..(Len(lastRun.cur.elements) - 1) :
          lastRun.cur.elements[i].confidence = lastRun.cur.elements[i + 1].confidence

\* The file of the tree at a path, and the scenario of C23: a function in a
\* file of three functions, legacy in its name, no keyword in its
\* docstring, no file but its own among its referencing files.
FileAt(path) == srcTree[FileIndex(path)]
ThreeFunctionFile(py_file) ==
    /\ py_file.parses
    /\ Len(py_file.decls) = 3
    /\ \A i \in 1..3 : py_file.decls[i].kind = "def" /\ py_file.decls[i].body = <<>>
LegacyScenario(e) ==
    /\ e.element_type = "function"
    /\ ThreeFunctionFile(FileAt(e.file_path))
    /\ Contains(LegacyName, lower(e.name))
    /\ ~DocHit(e)
    /\ ReferencesOf(lastRun.cur.references, e.name) \subseteq {e.file_path}

\* C23 as stated: in the scenario the function has confidence 0.6 or more.
C23_LegacyScoresSixTenths ==
    lastRun.runs > 0 =>
        \A i \in 1..Len(lastRun.cur.elements) :
            LegacyScenario(lastRun.cur.elements[i])
                => lastRun.cur.elements[i].confidence >= 6

\* C23, amended: in the scenario a function that is not a dunder has
\* confidence 0.5 or more and is among the candidates at the default
\* threshold 0.5.
C23_LegacyScoresHalf ==
    lastRun.runs > 0 =>
        \A i \in 1..Len(lastRun.cur.elements) :
            LET e == lastRun.cur.elements[i]
            IN  (LegacyScenario(e) /\ ~e.is_dunder)
                => /\ e.confidence >= 5
                   /\ Count(select(lastRun.cur.elements, 5), e) = 1

\* The public function legacy of the three-function file, referenced from
\* its own file only, with a second file in the tree: confidence 0.5.
C23_Witness ==
    /\ lastRun.runs > 0
    /\ Len(srcTree) = 2
    /\ lastRun.cur.unread = {}
    /\ \E i \in 1..Len(lastRun.cur.elements) :
          /\ LegacyScenario(lastRun.cur.elements[i])
          /\ ~lastRun.cur.elements[i].is_private
          /\ lastRun.cur.elements[i].references_count = 1
          /\ lastRun.cur.elements[i].confidence = 5

\* The elements an analysis appended for the declaration at a line of a file.
ElementsAt(es, path, line) ==
    {i \in 1..Len(es) : es[i].file_path = path /\ es[i].line_number = line}

\* C25: after an analysis, every top-level function, every top-level class
\* and every method of such a class of a file that parses has exactly one
\* element (the method named Class.method, of type method), and no
\* declaration has two.
C25_OneElementPerDeclaration ==
    lastRun.runs > 0 =>
        LET es == lastRun.cur.discovered
        IN  \A f \in 1..Len(srcTree) :
                srcTree[f].parses =>
                    \A d \in 1..Len(srcTree[f].decls) :
                        LET decl_ == srcTree[f].decls[d]
                            path == srcTree[f].path
                        IN  /\ Cardinality(ElementsAt(es, path, decl_.lineno)) = 1
                            /\ \A i \in ElementsAt(es, path, decl_.lineno) :
                                  /\ es[i].name = NFKC(decl_.spelled)
                                  /\ es[i].element_type =
                                        (IF decl_.kind = "def" THEN "function" ELSE "class")
                            /\ decl_.kind = "class" =>
                                  \A m \in 1..Len(decl_.body) :
                                      /\ Cardinality(ElementsAt(es, path,
                                                                decl_.body[m].lineno)) = 1
                                      /\ \A i \in ElementsAt(es, path, decl_.body[m].lineno) :
                                            /\ es[i].element_type = "method"
                                            /\ es[i].name = NFKC(decl_.spelled) \o <<".">>
                                                              \o NFKC(decl_.body[m].spelled)

\* C30 as stated: after an analysis whose second pass read every file, every
\* element has its own file among its referencing files, a reference count
\* of at least 1, and not the reason given for an empty reference set.
C30_OwnFileAlwaysReferences ==
    (lastRun.runs > 0 /\ lastRun.cur.unread = {}) =>
        \A i \in 1..Len(lastRun.cur.elements) :
            LET e == lastRun.cur.elements[i]
            IN  /\ e.file_path \in ReferencesOf(lastRun.cur.references, e.name)
                /\ e.references_count >= 1
                /\ \A m \in 1..Len(e.reasons) :
                      e.reasons[m].msg # "No references found in codebase"

\* Every declaration of a file, nested ones included; and an element whose
\* name is spelled in the source as the parser gives it.
RECURSIVE AllDecls(_)
AllDecls(decls) ==
    IF decls = <<>> THEN {}
    ELSE {Head(decls)} \cup AllDecls(Head(decls).body) \cup AllDecls(Tail(decls))
SpelledInNormalForm(e) ==
    \E d \in AllDecls(FileAt(e.file_path).decls) :
        d.lineno = e.line_number /\ d.spelled = BaseName(e.name)

\* C30, amended: after an analysis whose second pass read every file, every
\* element whose name is spelled in the source in normal form has its own
\* file among its referencing files, a reference count of at least 1 unless
\* it is a dunder, and not the reason given for an empty reference set.
C30_OwnFileReferencesNormalForm ==
    (lastRun.runs > 0 /\ lastRun.cur.unread = {}) =>
        \A i \in 1..Len(lastRun.cur.elements) :
            LET e == lastRun.cur.elements[i]
            IN  SpelledInNormalForm(e) =>
                /\ e.file_path \in ReferencesOf(lastRun.cur.references, e.name)
                /\ e.is_dunder \/ e.references_count >= 1
                /\ \A m \in 1..Len(e.reasons) :
                      e.reasons[m].msg # "No references found in codebase"

\* A private function named in no file but its own: one reference, the
\* own-file increment and the private increment.
C30_Witness ==
    /\ lastRun.runs > 0
    /\ lastRun.cur.unread = {}
    /\ Len(srcTree) = 2
    /\ \E i \in 1..Len(lastRun.cur.elements) :
          LET e == lastRun.cur.elements[i]
          IN  /\ SpelledInNormalForm(e)
              /\ e.is_private
              /\ ReferencesOf(lastRun.cur.references, e.name) = {e.file_path}
              /\ e.references_count = 1
              /\ e.confidence = OwnFileScore + PrivateScore

---------------------------------------------------------------------------
(* Properties of the two removal strategies, checked under FallbackSpec *)

\* The lines of a declaration as the design gives them: from its first
\* marker (or its def line) through its last line.
RECURSIVE MarkerStart(_, _)
MarkerStart(lines, j) ==
    IF j > 1 /\ lines[j - 1].k = "marker" THEN MarkerStart(lines, j - 1) ELSE j
DeclarationLines(lines, j) ==
    MarkerStart(lines, j)..BlockEnd(lines, j + 1, lines[j].ind, j)
MatchingLines(lines, names) ==
    UNION { DeclarationLines(lines, j) :
              j \in {i \in 1..Len(lines) : lines[i].k = "def" /\ lines[i].n \in names} }

\* The lines at the places in keep, in order.
RECURSIVE KeepLines(_, _, _)
KeepLines(lines, i, keep) ==
    IF i > Len(lines) THEN <<>>
    ELSE (IF i \in keep THEN <<lines[i]>> ELSE <<>>) \o KeepLines(lines, i + 1, keep)

\* C27: the text remove_functions_by_line returns is the text it was given
\* without the lines of the declarations whose name is on the list (marker
\* lines included), every other line unchanged and in its place.
C27_ByLineRemovesExactlyTheRanges ==
    fb.by_line.done =>
        /\ ~fb.by_line.raised
        /\ fb.by_line.lines =
              KeepLines(fb.source, 1,
                        (1..Len(fb.source))
                            \ MatchingLines(fb.source, SeqToSet(fb.function_names)))

\* The declarations a text holds: its def and class lines, in order.
DeclarationsIn(lines) ==
    LET ds == SelectSeq(lines, LAMBDA l : l.k \in {"def", "class"})
    IN  [i \in 1..Len(ds) |-> <<ds[i].k, ds[i].n, ds[i].ind>>]

\* C28: on the same text and the same list of names the two strategies leave
\* the same declarations.
C28_StrategiesRemoveTheSame ==
    (fb.by_line.done /\ fb.structural.done) =>
        DeclarationsIn(fb.by_line.lines) = DeclarationsIn(fb.structural.lines)

---------------------------------------------------------------------------
(* Properties of the default tracker, checked under SingletonSpec *)

\* The instances the get_tracker() calls ended so far have returned.
ReturnedTrackers ==
    UNION { SeqToSet(getters[t].returned) : t \in Threads }

\* C29: get_tracker constructs at most one TombstoneTracker, and every call,
\* from whichever thread, returns that one instance.
C29_OneDefaultTracker ==
    /\ constructed <= 1
    /\ Cardinality(ReturnedTrackers) <= 1

====
